---- MODULE Spec2Model ----
(***************************************************************************)
(* A model of the cloudpipe job lifecycle engine: the MongoDB-backed job   *)
(* queue (storage), the HTTP submit and kill handlers, the runner's claim  *)
(* step, the per-job executor with its attach goroutine and output         *)
(* collectors, and the Docker containers the executor drives.              *)
(*                                                                         *)
(* Every storage call and every container call is one atomic step; the    *)
(* local statements that follow a call up to the next call belong to the  *)
(* same step.  The executor's in-memory SubmittedJob is shared with the    *)
(* attach goroutine, so the steps of the two interleave on it.             *)
(***************************************************************************)
EXTENDS Integers, Sequences, FiniteSets, TLC

(***************************************************************************)
(* Bounds of the model.                                                    *)
(***************************************************************************)
\* submit requests, of one job each, of the lifecycle specification
MaxJobs == 1
\* submit requests, of one job each, of the queue specification
MaxQueued == 2
\* concurrent submit requests of the submit specification
MaxSubmits == 2
\* jobs per batch of the submit specification
MaxBatch == 2
\* kill requests
MaxKills == 1
\* output chunks the containers emit, over all jobs
MaxChunks == 2
\* storage and container calls that fail, over the whole run
MaxFaults == 1
\* the last reading of the clock
MaxTicks == 3
\* jobs in the collection at which the process is no longer restarted
MaxListJobs == 2
\* the largest jid and jid bound of a list request
MaxBound == 3

VARIABLES
    now,        \* the wall clock read by time.Now()
    root,       \* the "root" collection: << >> or <<[job_id |-> n]>>
    jobs,       \* the "jobs" collection: jid -> stored document
    sub,        \* submit requests in flight: handler -> local state
    returned,   \* history: jids in the order InsertJob returned them
    claims,     \* history: what each successful ClaimJob call returned
    claimErrs,  \* history: the jobs queued at each ClaimJob call that failed
    usage,      \* history: the UpdateAccountUsage calls, in order
    runner,     \* the runner goroutine between ClaimJob and its UpdateJob
    pc,         \* executor goroutine of job j: position in Execute
    mem,        \* executor goroutine of job j: its in-memory *SubmittedJob
    att,        \* attach goroutine of job j
    ctr,        \* Docker's container of job j
    kill,       \* kill requests in flight: handler -> local state
    chunks,     \* output chunks emitted so far
    faults,     \* calls failed so far
    admin,      \* Settings.AdminName of the running process
    list        \* the list request of the process and its response

vars == <<now, root, jobs, sub, returned, claims, claimErrs, usage, runner, pc, mem,
          att, ctr, kill, chunks, faults, admin, list>>

Kills == 1..MaxKills

(***************************************************************************)
(* job.go: statuses, Job, Validate, SubmittedJob.                          *)
(***************************************************************************)
StatusWaiting == "waiting"
StatusQueued == "queued"
StatusProcessing == "processing"
StatusDone == "done"
StatusError == "error"
StatusKilled == "killed"
StatusStalled == "stalled"

completedStatus == {StatusDone, StatusError, StatusKilled, StatusStalled}

validResultType == {"binary", "pickle"}

CodeMissingCommand == "JCMD"
CodeInvalidResultSource == "JRSRC"
CodeInvalidResultType == "JRTYPE"
CodeEnqueueFailure == "JQUEUE"

\* the result sources the model submits
ResultSources ==
    {"stdout", "file:/out", "file:", "file", "xfile:/out", "stdout:", "magic", ""}

\* a string as its sequence of bytes (the path "/out" is one symbol)
Chars(s) ==
    CASE s = "stdout"     -> <<"s", "t", "d", "o", "u", "t">>
      [] s = "stdout:"    -> <<"s", "t", "d", "o", "u", "t", ":">>
      [] s = "file:/out"  -> <<"f", "i", "l", "e", ":", "/out">>
      [] s = "file:"      -> <<"f", "i", "l", "e", ":">>
      [] s = "file"       -> <<"f", "i", "l", "e">>
      [] s = "xfile:/out" -> <<"x", "f", "i", "l", "e", ":", "/out">>
      [] s = "magic"      -> <<"m", "a", "g", "i", "c">>
      [] s = ""           -> << >>

\* strings.HasPrefix
HasPrefix(s, prefix) ==
    /\ Len(s) >= Len(prefix)
    /\ SubSeq(s, 1, Len(prefix)) = prefix

HasFilePrefix(s) == HasPrefix(Chars(s), Chars("file:"))

\* faulty variant: the result type is checked before the result source
ValidateTypeFirst(j) ==
    IF j.cmd = "" THEN "JCMD"
    ELSE IF j.result_type \notin {"binary", "pickle"} THEN "JRTYPE"
    ELSE IF j.result_source /= "stdout" /\ ~HasFilePrefix(j.result_source)
         THEN "JRSRC"
    ELSE ""

\* Job.Validate: "" for nil, else the APIError's code
Validate(j) ==
    IF j.cmd = "" THEN CodeMissingCommand
    ELSE IF j.result_source /= "stdout" /\ ~HasFilePrefix(j.result_source)
         THEN CodeInvalidResultSource
    ELSE IF j.result_type \notin validResultType THEN CodeInvalidResultType
    ELSE ""

\* a Job as a client submits it
\* (name "" is the nil *string: an unnamed job)
GoodJobs ==
    { [name |-> "", cmd |-> "run", result_source |-> rs, result_type |-> "binary"] :
        rs \in {"stdout", "file:/out"} }

BadJobs ==
    { [name |-> "", cmd |-> "", result_source |-> "stdout", result_type |-> "binary"],
      [name |-> "", cmd |-> "run", result_source |-> "magic", result_type |-> "binary"],
      [name |-> "", cmd |-> "run", result_source |-> "stdout", result_type |-> "bogus"] }

\* every combination of a missing, a valid and an invalid command, result
\* source and result type
AllJobs ==
    { [name |-> "", cmd |-> c, result_source |-> rs, result_type |-> rt] :
        c \in {"", "run"}, rs \in ResultSources,
        rt \in {"binary", "pickle", "bogus", ""} }

\* faulty variant: the job is stored as waiting
NewSubmittedJobWaiting(j, createdAt, account) ==
    [job |-> j, created_at |-> createdAt, started_at |-> 0, finished_at |-> 0,
     status |-> StatusWaiting, result |-> << >>, return_code |-> "",
     runtime |-> 0, queue_delay |-> 0, overhead_delay |-> 0,
     stdout |-> << >>, stderr |-> << >>,
     jid |-> 0, account |-> account, container_id |-> 0, kill_requested |-> FALSE]

\* the SubmittedJob literal of JobSubmitHandler: the job, its creation time,
\* status queued and the account; every other field has its zero value
\* (container_id 0 is the empty string: no container)
NewSubmittedJob(j, createdAt, account) ==
    [job |-> j, created_at |-> createdAt, started_at |-> 0, finished_at |-> 0,
     status |-> StatusQueued, result |-> << >>, return_code |-> "",
     runtime |-> 0, queue_delay |-> 0, overhead_delay |-> 0,
     stdout |-> << >>, stderr |-> << >>,
     jid |-> 0, account |-> account, container_id |-> 0, kill_requested |-> FALSE]

(***************************************************************************)
(* auth.go: Authenticate.  Only the administrator configured in the        *)
(* settings can authenticate.                                              *)
(***************************************************************************)
CodeCredentialsMissing == "ANONE"
CodeCredentialsIncorrect == "AFAIL"

\* Settings.AdminKey
AdminKey == "key"

\* the account names an administrator is configured with, and callers use
Accounts == {"alice", "bob"}

\* the outcome of r.BasicAuth(): no credentials, or a name and a key
NoCredentials == [ok |-> FALSE, name |-> "", key |-> ""]

Credentials ==
    {NoCredentials}
        \cup { [ok |-> TRUE, name |-> a, key |-> k] :
                    a \in Accounts, k \in {AdminKey, "guess"} }

\* the administrator of the first process start, and its credentials
FirstAdmin == "alice"

AdminCredentials == [ok |-> TRUE, name |-> FirstAdmin, key |-> AdminKey]

\* Authenticate: the Account, or the code of the 401 (the account is nil)
Authenticate(cred, adminName) ==
    IF ~cred.ok
    THEN [name |-> "", admin |-> FALSE, code |-> CodeCredentialsMissing]
    ELSE IF adminName /= "" /\ AdminKey /= ""
            /\ cred.name = adminName /\ cred.key = AdminKey
    THEN [name |-> cred.name, admin |-> TRUE, code |-> ""]
    ELSE [name |-> "", admin |-> FALSE, code |-> CodeCredentialsIncorrect]

(***************************************************************************)
(* storage.go: MongoStorage.                                               *)
(***************************************************************************)
\* faulty variant: the upsert writes MongoRoot{} over the record
BootstrapRootReset(r) == <<[job_id |-> 0]>>

\* Bootstrap's upsert with $setOnInsert: inserts MongoRoot{} only when the
\* collection is empty
BootstrapRoot(r) == IF r = << >> THEN <<[job_id |-> 0]>> ELSE r

\* faulty variant: the counter is read and not incremented
IncJobIDStuck(r) == r

\* InsertJob's $inc of job_id with ReturnNew
IncJobID(r) == <<[job_id |-> r[1].job_id + 1]>>

\* faulty variant: kill_requested and container_id without omitempty: $set writes
\* every field
SetJobAll(doc, j) == j

\* UpdateJob's {"$set": job}: every field of the struct is written, except
\* those tagged omitempty (container_id, kill_requested) when they are zero
SetJob(doc, j) ==
    [j EXCEPT !.container_id =
                  IF j.container_id = 0 THEN doc.container_id ELSE j.container_id,
              !.kill_requested =
                  IF j.kill_requested THEN TRUE ELSE doc.kill_requested]

\* UpdateJob: FindId(job.JID) and $set; a missing document changes nothing
UpdateJob(js, j) ==
    IF j.jid \in DOMAIN js THEN [js EXCEPT ![j.jid] = SetJob(js[j.jid], j)] ELSE js

\* the zero value of JobQuery (nil slices are empty sequences)
NoQuery ==
    [AccountName |-> "", JIDs |-> << >>, Names |-> << >>, Statuses |-> << >>,
     Limit |-> 0, Before |-> 0, After |-> 0]

\* faulty variant: every query reaches the storage
EarlyEmptyNever(q) == FALSE

\* ListJobs returns []SubmittedJob{} before it queries: the one jid, or
\* every one of several jids, is outside of the bounds given
EarlyEmpty(q) ==
    CASE Len(q.JIDs) = 0 -> FALSE
      [] Len(q.JIDs) = 1 ->
            \/ q.Before /= 0 /\ q.JIDs[1] >= q.Before
            \/ q.After /= 0 /\ q.JIDs[1] < q.After
      [] OTHER ->
            /\ q.Before /= 0 \/ q.After /= 0
            /\ \A i \in DOMAIN q.JIDs :
                  ~ /\ q.Before = 0 \/ q.JIDs[i] < q.Before
                    /\ q.After = 0 \/ q.JIDs[i] >= q.After

\* the "_id" key of the query document q.  With no jid, the assignment for
\* After replaces the one for Before.
SelectsID(q, jid) ==
    CASE Len(q.JIDs) = 0 ->
            IF q.After /= 0 THEN jid >= q.After
            ELSE IF q.Before /= 0 THEN jid < q.Before
            ELSE TRUE
      [] Len(q.JIDs) = 1 -> jid = q.JIDs[1]
      [] OTHER ->
            \E i \in DOMAIN q.JIDs :
                /\ q.JIDs[i] = jid
                /\ (q.Before /= 0 \/ q.After /= 0)
                      => /\ q.Before = 0 \/ jid < q.Before
                         /\ q.After = 0 \/ jid >= q.After

\* the "job.name" and "status" keys of the query document (a job without a
\* name, name "", has no job.name field and matches no name)
SelectsName(q, doc) ==
    Len(q.Names) = 0
        \/ \E i \in DOMAIN q.Names : doc.job.name /= "" /\ doc.job.name = q.Names[i]

SelectsStatus(q, doc) ==
    Len(q.Statuses) = 0 \/ \E i \in DOMAIN q.Statuses : doc.status = q.Statuses[i]

\* faulty variant: the query document has no "account" key
SelectsAnyAccount(q, doc) ==
    /\ SelectsID(q, doc.jid)
    /\ SelectsName(q, doc)
    /\ SelectsStatus(q, doc)

\* the document matches the bson.M that ListJobs builds: "account" always
Selects(q, doc) ==
    /\ doc.account = q.AccountName
    /\ SelectsID(q, doc.jid)
    /\ SelectsName(q, doc)
    /\ SelectsStatus(q, doc)

\* Query.Limit(n): at most n of the documents found, all of them when n is 0;
\* which ones is up to the server
Limited(found, n) ==
    IF n = 0 \/ Cardinality(found) <= n THEN {found}
    ELSE {some \in SUBSET found : Cardinality(some) = n}

\* ListJobs without an error: the results it can return, each a set of
\* documents
ListJobs(js, q) ==
    IF EarlyEmpty(q) THEN {{}}
    ELSE Limited({js[j] : j \in {i \in DOMAIN js : Selects(q, js[i])}}, q.Limit)

\* a call that can fail does so while the fault budget lasts
CanFail == faults < MaxFaults

(***************************************************************************)
(* Bootstrap, run again on every process start.                            *)
(***************************************************************************)
Bootstrap ==
    /\ root' = BootstrapRoot(root)
    /\ UNCHANGED <<now, jobs, sub, returned, claims, claimErrs, usage, runner, pc, mem, att, ctr,
                   kill, chunks, faults, admin, list>>

(***************************************************************************)
(* JobSubmitHandler.  A request validates and inserts the jobs of its      *)
(* batch in order; InsertJob is two storage calls.                         *)
(***************************************************************************)
Batches(js) == UNION { [1..n -> js] : n \in 1..MaxBatch }

\* the zero value of Job
NoJob == [name |-> "", cmd |-> "", result_source |-> "", result_type |-> ""]

IdleSubmit ==
    [pc |-> "idle", account |-> "", batch |-> << >>, index |-> 0,
     job |-> NewSubmittedJob(NoJob, 0, ""), jids |-> << >>, code |-> "",
     http |-> 0]

\* faulty variant: the loop does not validate
SubmitLoopUnchecked(s, i, t) ==
    IF i > Len(s.batch)
    THEN [IdleSubmit EXCEPT !.pc = "done", !.account = s.account,
                            !.batch = s.batch, !.index = i, !.jids = s.jids,
                            !.http = 200]
    ELSE [s EXCEPT !.pc = "inc", !.index = i,
                   !.job = NewSubmittedJob(s.batch[i], t, s.account)]

\* the head of the submit loop for the job at index i: the response when the
\* batch is exhausted, the 400 when the job is invalid, else the SubmittedJob
\* that InsertJob is about to be called with
SubmitLoop(s, i, t) ==
    IF i > Len(s.batch)
    THEN [IdleSubmit EXCEPT !.pc = "done", !.account = s.account,
                            !.batch = s.batch, !.index = i, !.jids = s.jids,
                            !.http = 200]
    ELSE IF Validate(s.batch[i]) /= ""
    THEN [IdleSubmit EXCEPT !.pc = "done", !.account = s.account,
                            !.batch = s.batch, !.index = i, !.jids = s.jids,
                            !.code = Validate(s.batch[i]), !.http = 400]
    ELSE [s EXCEPT !.pc = "inc", !.index = i,
                   !.job = NewSubmittedJob(s.batch[i], t, s.account)]

\* the 503 after InsertJob failed
SubmitFailed(s) ==
    [IdleSubmit EXCEPT !.pc = "done", !.account = s.account, !.batch = s.batch,
                       !.index = s.index, !.jids = s.jids,
                       !.code = CodeEnqueueFailure, !.http = 503]

\* time.Now(): the clock may or may not have advanced since the last reading
ClockReadings == {t \in {now, now + 1} : t <= MaxTicks}

\* Authenticate, the request body, and the loop up to its first InsertJob
SubmitBegin(h, batches) ==
    /\ sub[h].pc = "idle"
    /\ \E cred \in Credentials :
          LET account == Authenticate(cred, admin)
          IN  IF account.code /= ""
              THEN /\ sub' = [sub EXCEPT ![h] =
                         [IdleSubmit EXCEPT !.pc = "done", !.code = account.code,
                                            !.http = 401]]
                   /\ UNCHANGED now
              ELSE \E b \in batches, t \in ClockReadings :
                      /\ sub' = [sub EXCEPT ![h] =
                            SubmitLoop([IdleSubmit EXCEPT !.account = account.name,
                                                          !.batch = b], 1, t)]
                      /\ now' = IF sub'[h].pc = "inc" THEN t ELSE now
    /\ UNCHANGED <<root, jobs, returned, claims, claimErrs, usage, runner, pc, mem, att, ctr,
                   kill, chunks, faults, admin, list>>

\* InsertJob, first call: $inc the counter
InsertJobInc(h) ==
    /\ sub[h].pc = "inc"
    /\ \/ /\ root /= << >>
          /\ root' = IncJobID(root)
          /\ sub' = [sub EXCEPT ![h].pc = "insert",
                                ![h].job.jid = IncJobID(root)[1].job_id]
          /\ UNCHANGED faults
       \/ /\ CanFail \/ root = << >>
          /\ faults' = IF root = << >> THEN faults ELSE faults + 1
          /\ sub' = [sub EXCEPT ![h] = SubmitFailed(sub[h])]
          /\ UNCHANGED root
    /\ UNCHANGED <<now, jobs, returned, claims, claimErrs, usage, runner, pc, mem, att, ctr,
                   kill, chunks, admin, list>>

\* InsertJob, second call: insert the document; then the loop goes on
InsertJobInsert(h) ==
    /\ sub[h].pc = "insert"
    /\ \/ /\ sub[h].job.jid \notin DOMAIN jobs
          /\ jobs' = (sub[h].job.jid :> sub[h].job) @@ jobs
          /\ returned' = Append(returned, sub[h].job.jid)
          /\ \E t \in ClockReadings :
                /\ sub' = [sub EXCEPT ![h] =
                      SubmitLoop([sub[h] EXCEPT !.jids = Append(@, sub[h].job.jid)],
                                 sub[h].index + 1, t)]
                /\ now' = IF sub'[h].pc = "inc" THEN t ELSE now
          /\ UNCHANGED faults
       \/ /\ CanFail \/ sub[h].job.jid \in DOMAIN jobs
          /\ faults' = IF sub[h].job.jid \in DOMAIN jobs THEN faults ELSE faults + 1
          /\ sub' = [sub EXCEPT ![h] = SubmitFailed(sub[h])]
          /\ UNCHANGED <<now, jobs, returned>>
    /\ UNCHANGED <<root, claims, claimErrs, usage, runner, pc, mem, att, ctr, kill, chunks, admin, list>>

(***************************************************************************)
(* Docker.  A container of job j has the id j; id 0 is the empty string.   *)
(***************************************************************************)
\* (history: started, StartContainer succeeded; killed, KillContainer was
\* called with the id)
NoContainer == [state |-> "none", exit |-> 0, started |-> FALSE, killed |-> FALSE]

\* exit codes of a command that ends by itself
ExitCodes == {0, 7}

\* exit code of a container ended by SIGKILL
KilledExitCode == 128 + 9

\* the file CopyFromContainer archives, after the tar entry is decoded
FileContent == <<0>>

\* the command ends
ContainerExit(j) ==
    /\ ctr[j].state = "running"
    /\ \E e \in ExitCodes : ctr' = [ctr EXCEPT ![j].state = "exited", ![j].exit = e]
    /\ UNCHANGED <<now, root, jobs, sub, returned, claims, claimErrs, usage, runner, pc, mem, att,
                   kill, chunks, faults, admin, list>>

(***************************************************************************)
(* runner.go: Claim.                                                       *)
(***************************************************************************)
\* faulty variant: the queue is sorted by _id
ClaimSelectLowestJid(js) ==
    LET queued == {j \in DOMAIN js : js[j].status = StatusQueued}
    IN  {j \in queued : \A k \in queued : j <= k}

\* ClaimJob's Find({"status": "queued"}).Sort("created_at"): the documents
\* that may come first
ClaimSelect(js) ==
    LET queued == {j \in DOMAIN js : js[j].status = StatusQueued}
    IN  {j \in queued : \A k \in queued : js[j].created_at <= js[k].created_at}

\* faulty variant: the claimed document is returned and its status left alone
ClaimChangeLost(doc) == doc

\* ClaimJob's {"$set": {"status": "processing"}}
ClaimChange(doc) == [doc EXCEPT !.status = StatusProcessing]

\* faulty variant: the call fails after its change was applied
ClaimFailedApplied(js) ==
    IF ClaimSelect(js) = {} THEN js
    ELSE LET j == CHOOSE k \in ClaimSelect(js) : TRUE
         IN  [js EXCEPT ![j] = ClaimChange(js[j])]

\* ClaimJob returns (nil, err): the collection is as it was
ClaimFailed(js) == js

\* the state of a job's goroutines and container when Execute is launched
Launch(f, j, v) == (j :> v) @@ f

\* faulty variant: the status of the invalid job is left as it is
InvalidatedProcessing(job) == job

\* Claim's job.Status = StatusError for a job that fails Validate
Invalidated(job) == [job EXCEPT !.status = StatusError]

\* One iteration of Runner.  ClaimJob fails, finds nothing, or returns the
\* claimed document (ReturnNew); a job that fails Validate is marked error
\* by a second storage call, every other is handed to a new Execute
\* goroutine.  JobSubmitHandler inserts valid jobs only, so the second call
\* is the runner's defensive branch.
Claim ==
    IF runner /= << >>
    THEN /\ runner' = << >>
         /\ \E ok \in {TRUE} \cup {f \in {FALSE} : CanFail} :
               /\ jobs' = IF ok THEN UpdateJob(jobs, runner[1]) ELSE jobs
               /\ faults' = IF ok THEN faults ELSE faults + 1
         /\ UNCHANGED <<now, root, sub, returned, claims, claimErrs, usage, pc, mem, att, ctr,
                        kill, chunks, admin, list>>
    ELSE \/ /\ CanFail
            /\ faults' = faults + 1
            /\ jobs' = ClaimFailed(jobs)
            /\ claimErrs' = Append(claimErrs,
                    {j \in DOMAIN jobs : jobs[j].status = StatusQueued})
            /\ UNCHANGED <<now, root, sub, returned, claims, usage, runner, pc,
                           mem, att, ctr, kill, chunks, admin, list>>
         \/ /\ ClaimSelect(jobs) = {}
            /\ UNCHANGED vars
         \/ \E j \in ClaimSelect(jobs) :
               LET job == ClaimChange(jobs[j])
               IN  /\ jobs' = [jobs EXCEPT ![j] = job]
                   /\ claims' = Append(claims, j)
                   /\ IF Validate(job.job) /= ""
                      THEN /\ runner' = <<Invalidated(job)>>
                           /\ UNCHANGED <<pc, mem, att, ctr>>
                      ELSE /\ pc' = Launch(pc, j, "create")
                           /\ mem' = Launch(mem, j, job)
                           /\ att' = Launch(att, j, "off")
                           /\ ctr' = Launch(ctr, j, NoContainer)
                           /\ UNCHANGED runner
                   /\ UNCHANGED <<now, root, sub, returned, claimErrs, usage, kill, chunks,
                                  faults, admin, list>>

(***************************************************************************)
(* runner.go: Execute, one action for each storage or container call.      *)
(***************************************************************************)
\* the outcomes of a call that can fail: TRUE is success
Outcomes == {TRUE} \cup {f \in {FALSE} : CanFail}

Spend(ok) == faults' = IF ok THEN faults ELSE faults + 1

\* the closure updateJob: UpdateJob(job) with the job as it is in memory now
ExecUpdateJob(j, ok) == jobs' = IF ok THEN UpdateJob(jobs, mem[j]) ELSE jobs

\* job.StartedAt and job.QueueDelay from the clock
Started(job, t) ==
    [job EXCEPT !.started_at = t, !.queue_delay = t - job.created_at]

\* job.OverheadDelay from the clock reading overhead
Overhead(job, t) == [job EXCEPT !.overhead_delay = t - job.started_at]

\* job.FinishedAt from the clock, and job.Runtime since the reading
\* overhead, which is StartedAt plus OverheadDelay
Finished(job, t) ==
    [job EXCEPT !.finished_at = t,
                !.runtime = t - (job.started_at + job.overhead_delay)]

\* the start timestamp and the queue delay, then CreateContainer; on failure
\* status error, on success job.ContainerID
ExecCreate(j) ==
    /\ pc[j] = "create"
    /\ \E ok \in Outcomes, t \in ClockReadings :
          /\ Spend(ok)
          /\ now' = t
          /\ IF ok
             THEN /\ ctr' = [ctr EXCEPT ![j].state = "created"]
                  /\ mem' = [mem EXCEPT ![j] =
                                [Started(mem[j], t) EXCEPT !.container_id = j]]
                  /\ pc' = [pc EXCEPT ![j] = "persist_id"]
             ELSE /\ mem' = [mem EXCEPT ![j] =
                                [Started(mem[j], t) EXCEPT !.status = StatusError]]
                  /\ pc' = [pc EXCEPT ![j] = "create_failed"]
                  /\ UNCHANGED ctr
    /\ UNCHANGED <<root, jobs, sub, returned, claims, claimErrs, usage, runner, att, kill, chunks, admin, list>>

\* updateJob("status") after a create, start or wait failure; then return
ExecFailed(j) ==
    /\ pc[j] \in {"create_failed", "start_failed", "wait_failed"}
    /\ \E ok \in Outcomes : Spend(ok) /\ ExecUpdateJob(j, ok)
    /\ pc' = [pc EXCEPT ![j] = "returned"]
    /\ UNCHANGED <<now, root, sub, returned, claims, claimErrs, usage, runner, mem, att, ctr, kill, chunks, admin, list>>

\* updateJob("start timestamp and container id"); return when it fails;
\* then the pre-start kill check on the in-memory job, and the attach
\* goroutine is started
ExecPersistID(j) ==
    /\ pc[j] = "persist_id"
    /\ \E ok \in Outcomes :
          /\ Spend(ok)
          /\ ExecUpdateJob(j, ok)
          /\ IF ~ok
             THEN /\ pc' = [pc EXCEPT ![j] = "returned"]
                  /\ UNCHANGED <<mem, att>>
             ELSE IF mem[j].kill_requested
             THEN /\ mem' = [mem EXCEPT ![j].status = StatusKilled]
                  /\ pc' = [pc EXCEPT ![j] = "remove"]
                  /\ UNCHANGED att
             ELSE /\ att' = [att EXCEPT ![j] = "open"]
                  /\ pc' = [pc EXCEPT ![j] = "start"]
                  /\ UNCHANGED mem
    /\ UNCHANGED <<now, root, sub, returned, claims, claimErrs, usage, runner, ctr, kill, chunks, admin, list>>

\* StartContainer, and on success the overhead delay from the clock
ExecStart(j) ==
    /\ pc[j] = "start"
    /\ \E ok \in Outcomes :
          /\ Spend(ok)
          /\ IF ok
             THEN /\ ctr' = [ctr EXCEPT ![j].state = "running", ![j].started = TRUE]
                  /\ pc' = [pc EXCEPT ![j] = "overhead"]
                  /\ \E t \in ClockReadings :
                        /\ now' = t
                        /\ mem' = [mem EXCEPT ![j] = Overhead(mem[j], t)]
             ELSE /\ mem' = [mem EXCEPT ![j].status = StatusError]
                  /\ pc' = [pc EXCEPT ![j] = "start_failed"]
                  /\ UNCHANGED <<now, ctr>>
    /\ UNCHANGED <<root, jobs, sub, returned, claims, claimErrs, usage, runner, att, kill, chunks, admin, list>>

\* err is one variable of Execute, and the attach goroutine assigns the
\* result of AttachToContainer to it without synchronisation.  The goroutine
\* is running
Attaching(j) == att[j] \in {"open", "write"}

\* StartContainer succeeds, and AttachToContainer returns an error between
\* the executor's assignment to err and the read of err in checkErr: the
\* executor reads the error of the attach and takes the start as failed
ExecStartRaced(j) ==
    /\ pc[j] = "start"
    /\ Attaching(j)
    /\ CanFail
    /\ faults' = faults + 1
    /\ att' = [att EXCEPT ![j] = "closed"]
    /\ ctr' = [ctr EXCEPT ![j].state = "running", ![j].started = TRUE]
    /\ mem' = [mem EXCEPT ![j].status = StatusError]
    /\ pc' = [pc EXCEPT ![j] = "start_failed"]
    /\ UNCHANGED <<now, root, jobs, sub, returned, claims, claimErrs, usage, runner, kill, chunks, admin, list>>

\* updateJob("overhead delay"), its result ignored
ExecOverhead(j) ==
    /\ pc[j] = "overhead"
    /\ \E ok \in Outcomes : Spend(ok) /\ ExecUpdateJob(j, ok)
    /\ pc' = [pc EXCEPT ![j] = "wait"]
    /\ UNCHANGED <<now, root, sub, returned, claims, claimErrs, usage, runner, mem, att, ctr, kill, chunks, admin, list>>

\* WaitContainer returns the exit code once the container has exited; then
\* the finish timestamp and the runtime from the clock; exit code 0 is
\* status done
ExecWait(j) ==
    /\ pc[j] = "wait"
    /\ \/ /\ ctr[j].state = "exited"
          /\ \E t \in ClockReadings :
                /\ now' = t
                /\ IF ctr[j].exit = 0
                   THEN /\ mem' = [mem EXCEPT ![j] =
                                [Finished(mem[j], t) EXCEPT !.status = StatusDone]]
                        /\ pc' = [pc EXCEPT ![j] = "extract"]
                   ELSE /\ mem' = [mem EXCEPT ![j] = Finished(mem[j], t)]
                        /\ pc' = [pc EXCEPT ![j] = "kill_requested"]
          /\ UNCHANGED faults
       \/ /\ CanFail
          /\ faults' = faults + 1
          /\ mem' = [mem EXCEPT ![j].status = StatusError]
          /\ pc' = [pc EXCEPT ![j] = "wait_failed"]
          /\ UNCHANGED now
    /\ UNCHANGED <<root, jobs, sub, returned, claims, claimErrs, usage, runner, att, ctr, kill, chunks, admin, list>>

\* JobKillRequested(jid): the stored kill_requested flag
JobKillRequested(js, jid) == js[jid].kill_requested

\* faulty variant: a non-zero exit code is an error, whatever was requested
KillDecisionError(killed) == StatusError

\* the status of a container that exited with a non-zero code, by what
\* JobKillRequested returned
KillDecision(killed) == IF killed THEN StatusKilled ELSE StatusError

\* a non-zero exit code: killed when a kill was requested, else error;
\* return when JobKillRequested fails
ExecKillRequested(j) ==
    /\ pc[j] = "kill_requested"
    /\ \E ok \in Outcomes :
          /\ Spend(ok)
          /\ IF ok
             THEN /\ mem' = [mem EXCEPT ![j].status =
                        KillDecision(JobKillRequested(jobs, j))]
                  /\ pc' = [pc EXCEPT ![j] = "extract"]
             ELSE /\ pc' = [pc EXCEPT ![j] = "returned"]
                  /\ UNCHANGED mem
    /\ UNCHANGED <<now, root, jobs, sub, returned, claims, claimErrs, usage, runner, att, ctr, kill, chunks, admin, list>>

\* the result: the stdout collected so far, or the file copied out of the
\* container and decoded from its tar archive
ExecExtract(j) ==
    /\ pc[j] = "extract"
    /\ IF mem[j].job.result_source = "stdout"
       THEN /\ mem' = [mem EXCEPT ![j].result = mem[j].stdout]
            /\ UNCHANGED faults
       ELSE \/ /\ mem' = [mem EXCEPT ![j].result = FileContent]
               /\ UNCHANGED faults
            \/ /\ CanFail
               /\ faults' = faults + 1
               /\ \/ mem' = [mem EXCEPT ![j].status = StatusError]
                  \/ mem' = [mem EXCEPT ![j].status = StatusError, ![j].result = << >>]
    /\ pc' = [pc EXCEPT ![j] = "remove"]
    /\ UNCHANGED <<now, root, jobs, sub, returned, claims, claimErrs, usage, runner, att, ctr, kill, chunks, admin, list>>

\* RemoveContainer, its error only logged
ExecRemove(j) ==
    /\ pc[j] = "remove"
    /\ \E ok \in Outcomes :
          /\ Spend(ok)
          /\ ctr' = IF ok THEN [ctr EXCEPT ![j].state = "removed"] ELSE ctr
    /\ pc' = [pc EXCEPT ![j] = "usage"]
    /\ UNCHANGED <<now, root, jobs, sub, returned, claims, claimErrs, usage, runner, mem, att, kill, chunks, admin, list>>

\* the call UpdateAccountUsage(job.Account, job.Runtime) of this job
AccountUsage(u, job) ==
    Append(u, [jid |-> job.jid, account |-> job.account, runtime |-> job.runtime])

\* UpdateAccountUsage, which in MongoStorage does nothing and returns nil
ExecUsage(j) ==
    /\ pc[j] = "usage"
    /\ usage' = AccountUsage(usage, mem[j])
    /\ pc' = [pc EXCEPT ![j] = "final"]
    /\ UNCHANGED <<now, root, jobs, sub, returned, claims, claimErrs, runner, mem, att, ctr, kill, chunks, faults, admin, list>>

\* UpdateAccountUsage returns nil, and AttachToContainer returns an error
\* between the executor's assignment to err and its test of err: the
\* executor reads the error of the attach, logs it and returns
ExecUsageRaced(j) ==
    /\ pc[j] = "usage"
    /\ Attaching(j)
    /\ CanFail
    /\ faults' = faults + 1
    /\ att' = [att EXCEPT ![j] = "closed"]
    /\ usage' = AccountUsage(usage, mem[j])
    /\ pc' = [pc EXCEPT ![j] = "returned"]
    /\ UNCHANGED <<now, root, jobs, sub, returned, claims, claimErrs, runner, mem, ctr, kill, chunks, admin, list>>

\* updateJob("status and final result"), and "Job complete." is logged
ExecFinal(j) ==
    /\ pc[j] = "final"
    /\ \E ok \in Outcomes : Spend(ok) /\ ExecUpdateJob(j, ok)
    /\ pc' = [pc EXCEPT ![j] = "complete"]
    /\ UNCHANGED <<now, root, sub, returned, claims, claimErrs, usage, runner, mem, att, ctr, kill, chunks, admin, list>>

(***************************************************************************)
(* runner.go: the attach goroutine and OutputCollector.Write.              *)
(* AttachToContainer copies the container's output to the stdout or the    *)
(* stderr collector, one Write per chunk; nothing orders the goroutine     *)
(* with the executor after it is started.                                  *)
(***************************************************************************)
\* Write, first half: a chunk arrives and is appended to the in-memory job
AttachWrite(j) ==
    /\ att[j] = "open"
    /\ ctr[j].state \in {"running", "exited", "removed"}
    /\ chunks < MaxChunks
    /\ chunks' = chunks + 1
    /\ \E isStdout \in BOOLEAN :
          mem' = IF isStdout
                 THEN [mem EXCEPT ![j].stdout = Append(@, chunks + 1)]
                 ELSE [mem EXCEPT ![j].stderr = Append(@, chunks + 1)]
    /\ att' = [att EXCEPT ![j] = "write"]
    /\ UNCHANGED <<now, root, jobs, sub, returned, claims, claimErrs, usage, runner, pc, ctr, kill, faults, admin, list>>

\* Write, second half: UpdateJob(c.job); an error is a short write, which
\* ends the attach stream
AttachUpdate(j) ==
    /\ att[j] = "write"
    /\ \E ok \in Outcomes :
          /\ Spend(ok)
          /\ ExecUpdateJob(j, ok)
          /\ att' = [att EXCEPT ![j] = IF ok THEN "open" ELSE "closed"]
    /\ UNCHANGED <<now, root, sub, returned, claims, claimErrs, usage, runner, pc, mem, ctr, kill, chunks, admin, list>>

(***************************************************************************)
(* JobKillHandler.                                                         *)
(***************************************************************************)
CodeListFailure == "JLIST"
CodeJobNotFound == "JNF"
CodeJobUpdateFailure == "JUPD"
CodeJobKillFailure == "JKILL"

CodeInvalidJobForm == "JFRM"
CodeWTF == "WTF"

\* strconv.ParseUint of a jid or a bound as the client writes it: a number
\* in decimal, where -1 is the text "-1"
ParseUintFails(raw) == raw < 0

IdleKill ==
    [pc |-> "idle", caller |-> "", sudo |-> FALSE, jid |-> 0,
     job |-> NewSubmittedJob(NoJob, 0, ""), code |-> "",
     queued |-> FALSE, early |-> FALSE, stored |-> FALSE]

\* the job the handler writes back: kill_requested set, and status killed
\* when it was read as queued
KillChange(job) ==
    [job EXCEPT !.kill_requested = TRUE,
                !.status = IF job.status = StatusQueued THEN StatusKilled ELSE job.status]

\* the JobQuery of the handler: the jid, and the account unless sudo is set
KillQuery(jid, sudo, name) ==
    [NoQuery EXCEPT !.JIDs = <<jid>>,
                    !.AccountName = IF ~sudo THEN name ELSE ""]

\* Authenticate, the form, ListJobs for the jid of the request, then the
\* change to the copy read.
\* (history: queued, the job was read in status queued; stored, a job with
\* the jid of the request was in the collection when the handler looked)
KillBegin(k, requests) ==
    /\ kill[k].pc = "idle"
    /\ \E req \in requests :
          LET account == Authenticate(req.cred, admin)
              asked == [IdleKill EXCEPT !.caller = account.name,
                                        !.sudo = req.sudo, !.jid = req.jid,
                                        !.stored = req.jid \in DOMAIN jobs]
              stop(code) == [asked EXCEPT !.pc = "done", !.code = code]
          IN  IF account.code /= ""
              THEN /\ kill' = [kill EXCEPT ![k] = stop(account.code)]
                   /\ UNCHANGED faults
              ELSE IF ParseUintFails(req.jid)
              THEN /\ kill' = [kill EXCEPT ![k] = stop(CodeInvalidJobForm)]
                   /\ UNCHANGED faults
              ELSE \/ /\ CanFail
                      /\ faults' = faults + 1
                      /\ kill' = [kill EXCEPT ![k] = stop(CodeListFailure)]
                   \/ /\ UNCHANGED faults
                      /\ \E found \in ListJobs(jobs, KillQuery(req.jid, req.sudo, account.name)) :
                            kill' = [kill EXCEPT ![k] =
                                IF found = {} THEN stop(CodeJobNotFound)
                                ELSE IF Cardinality(found) /= 1 THEN stop(CodeWTF)
                                ELSE LET job == CHOOSE d \in found : TRUE
                                     IN  [asked EXCEPT
                                            !.pc = "update",
                                            !.job = KillChange(job),
                                            !.queued = (job.status = StatusQueued)]]
    /\ UNCHANGED <<now, root, jobs, sub, returned, claims, claimErrs, usage, runner, pc, mem, att,
                   ctr, chunks, admin, list>>

\* faulty variant: a job read in a completed status is left alone
HasContainerRunning(job) ==
    job.container_id /= 0 /\ job.status \notin completedStatus

\* job.ContainerID != "": the handler goes on to KillContainer
HasContainer(job) == job.container_id /= 0

\* UpdateJob(job); without a container id the handler is done.
\* (history: early, the write reached a claimed job that had no stored
\* container id yet)
KillUpdate(k) ==
    /\ kill[k].pc = "update"
    /\ \E ok \in Outcomes :
          /\ Spend(ok)
          /\ jobs' = IF ok THEN UpdateJob(jobs, kill[k].job) ELSE jobs
          /\ kill' = [kill EXCEPT
                 ![k].pc = IF ok /\ HasContainer(kill[k].job) THEN "kill" ELSE "done",
                 ![k].code = IF ok THEN "" ELSE CodeJobUpdateFailure,
                 ![k].early = /\ ok
                              /\ jobs[kill[k].job.jid].status = StatusProcessing
                              /\ jobs[kill[k].job.jid].container_id = 0]
    /\ UNCHANGED <<now, root, sub, returned, claims, claimErrs, usage, runner, pc, mem, att, ctr, chunks, admin, list>>

\* KillContainer(job.ContainerID): a running container exits, killed; any
\* other is an error of the Docker daemon
KillContainer(k) ==
    /\ kill[k].pc = "kill"
    /\ LET id == kill[k].job.container_id
       IN  \/ /\ ctr[id].state = "running"
              /\ ctr' = [ctr EXCEPT ![id].state = "exited",
                                    ![id].exit = KilledExitCode,
                                    ![id].killed = TRUE]
              /\ kill' = [kill EXCEPT ![k].pc = "done"]
              /\ UNCHANGED faults
           \/ /\ ctr[id].state /= "running"
              /\ ctr' = [ctr EXCEPT ![id].killed = TRUE]
              /\ kill' = [kill EXCEPT ![k].pc = "done", ![k].code = CodeJobKillFailure]
              /\ UNCHANGED faults
           \/ /\ CanFail
              /\ faults' = faults + 1
              /\ kill' = [kill EXCEPT ![k].pc = "done", ![k].code = CodeJobKillFailure]
              /\ UNCHANGED ctr
    /\ UNCHANGED <<now, root, jobs, sub, returned, claims, claimErrs, usage, runner, pc, mem, att, chunks, admin, list>>

(***************************************************************************)
(* JobListHandler.  The whole request is one step: it makes one storage    *)
(* call.  A process serves one list request.                               *)
(***************************************************************************)
CodeUnableToParseQuery == "QINVAL"

DecimalDigits == <<"0", "1", "2", "3", "4", "5", "6", "7", "8", "9">>

IsDigits(s) == \A i \in DOMAIN s : \E d \in DOMAIN DecimalDigits : DecimalDigits[d] = s[i]

DigitValue(c) == (CHOOSE d \in DOMAIN DecimalDigits : DecimalDigits[d] = c) - 1

RECURSIVE TrimZeros(_)
TrimZeros(s) == IF s /= << >> /\ s[1] = "0" THEN TrimZeros(Tail(s)) ELSE s

\* the digits a are a greater number than the digits b of the same length
RECURSIVE DigitsGreater(_, _)
DigitsGreater(a, b) ==
    IF a = << >> THEN FALSE
    ELSE IF a[1] /= b[1] THEN DigitValue(a[1]) > DigitValue(b[1])
    ELSE DigitsGreater(Tail(a), Tail(b))

\* 1<<63 - 1, the largest int of the 64-bit build
MaxInt64 ==
    <<"9", "2", "2", "3", "3", "7", "2", "0", "3", "6",
      "8", "5", "4", "7", "7", "5", "8", "0", "7">>

\* the magnitude does not fit: more than 1<<63 - 1, or than 1<<63 when
\* negative
OutOfRange(digits, negative) ==
    LET d == TrimZeros(digits)
    IN  \/ Len(d) > Len(MaxInt64)
        \/ /\ Len(d) = Len(MaxInt64)
           /\ DigitsGreater(d, MaxInt64)
           /\ ~(negative /\ d = [MaxInt64 EXCEPT ![19] = "8"])

\* the handler tells apart no two values above LimitCeiling
LimitCeiling == 9999

\* the value of the digits; one above LimitCeiling stands for every value
\* above it
RECURSIVE DigitsValue(_, _)
DigitsValue(digits, acc) ==
    IF digits = << >> THEN acc
    ELSE LET n == 10 * acc + DigitValue(digits[1])
         IN  DigitsValue(Tail(digits), IF n > LimitCeiling THEN LimitCeiling + 1 ELSE n)

\* strconv.ParseInt(s, 10, 0) of a non-empty s: an optional sign and digits
ParseInt(s) ==
    LET signed == s[1] \in {"+", "-"}
        negative == s[1] = "-"
        digits == IF signed THEN Tail(s) ELSE s
    IN  IF digits = << >> \/ ~IsDigits(digits) THEN [err |-> TRUE, n |-> 0]
        ELSE IF OutOfRange(digits, negative) THEN [err |-> TRUE, n |-> 0]
        ELSE [err |-> FALSE,
              n |-> IF negative THEN 0 - DigitsValue(digits, 0)
                    ELSE DigitsValue(digits, 0)]

\* faulty variant: every limit that parses is passed on
LimitOfUnchecked(rawLimit) ==
    IF rawLimit = << >> THEN [code |-> "", limit |-> 1000]
    ELSE LET p == ParseInt(rawLimit)
         IN  IF p.err THEN [code |-> CodeUnableToParseQuery, limit |-> 0]
             ELSE [code |-> "", limit |-> p.n]

\* the limit of the query, or the code of the 400
LimitOf(rawLimit) ==
    IF rawLimit = << >> THEN [code |-> "", limit |-> 1000]
    ELSE LET p == ParseInt(rawLimit)
             limit == IF p.n > 9999 THEN 9999 ELSE p.n
         IN  IF p.err THEN [code |-> CodeUnableToParseQuery, limit |-> 0]
             ELSE IF limit < 1 THEN [code |-> CodeUnableToParseQuery, limit |-> 0]
             ELSE [code |-> "", limit |-> limit]

\* the before or after parameter as the client writes it: << >> when it is
\* missing, else one number in decimal
BoundOf(raw) == IF raw = << >> THEN 0 ELSE raw[1]

BoundFails(raw) == raw /= << >> /\ ParseUintFails(raw[1])

NoList ==
    [caller |-> "", rawLimit |-> << >>, q |-> NoQuery, code |-> "", http |-> 0,
     queried |-> FALSE, jobs |-> {}, others |-> FALSE, alone |-> TRUE]

\* a request that ended before the storage call
ListRejected(req, caller, code, http) ==
    [NoList EXCEPT !.caller = caller, !.rawLimit = req.limit, !.code = code,
                   !.http = http]

\* (history: others, another account held a job that the query selects but
\* for its account; alone, the response is one that ListJobs gives when the
\* collection holds the jobs of the caller only)
List(requests) ==
    /\ list.http = 0
    /\ \E req \in requests :
          LET account == Authenticate(req.cred, admin)
              lim == LimitOf(req.limit)
              q == [AccountName |-> account.name, JIDs |-> req.jids,
                    Names |-> req.names, Statuses |-> req.statuses,
                    Limit |-> lim.limit, Before |-> BoundOf(req.before),
                    After |-> BoundOf(req.after)]
              own == [j \in {i \in DOMAIN jobs : jobs[i].account = account.name}
                        |-> jobs[j]]
              answered(found) ==
                  [caller |-> account.name, rawLimit |-> req.limit, q |-> q,
                   code |-> "", http |-> 200, queried |-> ~EarlyEmpty(q),
                   jobs |-> found,
                   others |-> \E j \in DOMAIN jobs :
                                 /\ jobs[j].account /= account.name
                                 /\ SelectsAnyAccount(q, jobs[j]),
                   alone |-> found \in ListJobs(own, q)]
          IN  IF account.code /= ""
              THEN /\ list' = ListRejected(req, "", account.code, 401)
                   /\ UNCHANGED faults
              ELSE IF \/ \E i \in DOMAIN req.jids : ParseUintFails(req.jids[i])
                      \/ lim.code /= ""
                      \/ BoundFails(req.before)
                      \/ BoundFails(req.after)
              THEN /\ list' = ListRejected(req, account.name, CodeUnableToParseQuery, 400)
                   /\ UNCHANGED faults
              ELSE \/ /\ ~EarlyEmpty(q)
                      /\ CanFail
                      /\ faults' = faults + 1
                      /\ list' = [ListRejected(req, account.name, CodeListFailure, 503)
                                    EXCEPT !.q = q, !.queried = TRUE]
                   \/ /\ \E found \in ListJobs(jobs, q) : list' = answered(found)
                      /\ UNCHANGED faults
    /\ UNCHANGED <<now, root, jobs, sub, returned, claims, claimErrs, usage, runner, pc, mem, att,
                   ctr, kill, chunks, admin>>

(***************************************************************************)
(* The JSON of a SubmittedJob, as JobListHandler's json.Encoder writes the *)
(* jobs of a response and as a client's json.Decoder reads them.  A text   *)
(* is its sequence of bytes; the texts of the model hold ASCII bytes and   *)
(* the byte 0xFF, which no UTF-8 sequence contains.                        *)
(***************************************************************************)
\* time.Duration units of a StoredTime: it counts nanoseconds
NanosPerSecond == 1000000000

NanosPerMilli == 1000000

\* faulty variant: the format has no milliseconds
MarshalJSONSeconds(t) == [second |-> t \div NanosPerSecond, milli |-> 0]

\* StoredTime.MarshalJSON: AsTime().Format(`"2006-01-02 15:04:05.000"`).
\* second stands for the text of the date and the time of day up to the
\* second, milli for the three digits that follow; Format cuts off what is
\* below a millisecond
MarshalJSON(t) ==
    [second |-> t \div NanosPerSecond,
     milli |-> (t % NanosPerSecond) \div NanosPerMilli]

\* StoredTime.UnmarshalJSON: time.Parse of the same layout, then UnixNano
UnmarshalJSON(w) == w.second * NanosPerSecond + w.milli * NanosPerMilli

\* the '=' that pads base64 text, next to the 64 digits 0..63
Base64Pad == 64

\* base64.StdEncoding of a []byte, which is how encoding/json writes one
RECURSIVE Base64Encode(_)
Base64Encode(b) ==
    CASE Len(b) = 0 -> << >>
      [] Len(b) = 1 -> <<b[1] \div 4, (b[1] % 4) * 16, Base64Pad, Base64Pad>>
      [] Len(b) = 2 ->
            <<b[1] \div 4, (b[1] % 4) * 16 + b[2] \div 16, (b[2] % 16) * 4,
              Base64Pad>>
      [] OTHER ->
            <<b[1] \div 4, (b[1] % 4) * 16 + b[2] \div 16,
              (b[2] % 16) * 4 + b[3] \div 64, b[3] % 64>>
                \o Base64Encode(SubSeq(b, 4, Len(b)))

RECURSIVE Base64Decode(_)
Base64Decode(s) ==
    IF Len(s) = 0 THEN << >>
    ELSE IF s[3] = Base64Pad THEN <<s[1] * 4 + s[2] \div 16>>
    ELSE IF s[4] = Base64Pad
    THEN <<s[1] * 4 + s[2] \div 16, (s[2] % 16) * 16 + s[3] \div 4>>
    ELSE <<s[1] * 4 + s[2] \div 16, (s[2] % 16) * 16 + s[3] \div 4,
           (s[3] % 4) * 64 + s[4]>>
             \o Base64Decode(SubSeq(s, 5, Len(s)))

\* U+FFFD in UTF-8
ReplacementChar == <<239, 191, 189>>

\* encoding/json writes a string coerced to valid UTF-8: every invalid byte
\* becomes U+FFFD
RECURSIVE ToValidUTF8(_)
ToValidUTF8(s) ==
    IF s = << >> THEN << >>
    ELSE (IF s[1] < 128 THEN <<s[1]>> ELSE ReplacementChar)
            \o ToValidUTF8(Tail(s))

\* the JSON object of a SubmittedJob, by the json tags of the struct: the
\* fields tagged "-" (account, container_id, kill_requested) are left out,
\* those tagged omitempty (name, started_at, finished_at) when they are nil
\* or zero; << >> is a key that is left out, <<v>> one that is there
EncodeJob(j) ==
    [cmd |-> j.job.cmd,
     name |-> IF j.job.name = "" THEN << >> ELSE <<j.job.name>>,
     result_source |-> j.job.result_source,
     result_type |-> j.job.result_type,
     created_at |-> MarshalJSON(j.created_at),
     started_at |-> IF j.started_at = 0 THEN << >> ELSE <<MarshalJSON(j.started_at)>>,
     finished_at |-> IF j.finished_at = 0 THEN << >> ELSE <<MarshalJSON(j.finished_at)>>,
     status |-> j.status,
     result |-> Base64Encode(j.result),
     return_code |-> j.return_code,
     runtime |-> j.runtime,
     queue_delay |-> j.queue_delay,
     overhead_delay |-> j.overhead_delay,
     stderr |-> ToValidUTF8(j.stderr),
     stdout |-> ToValidUTF8(j.stdout),
     jid |-> j.jid]

\* json.Decoder into a new SubmittedJob: a field without a key keeps its
\* zero value
DecodeJob(o) ==
    [job |-> [name |-> IF o.name = << >> THEN "" ELSE o.name[1],
              cmd |-> o.cmd, result_source |-> o.result_source,
              result_type |-> o.result_type],
     created_at |-> UnmarshalJSON(o.created_at),
     started_at |-> IF o.started_at = << >> THEN 0 ELSE UnmarshalJSON(o.started_at[1]),
     finished_at |-> IF o.finished_at = << >> THEN 0 ELSE UnmarshalJSON(o.finished_at[1]),
     status |-> o.status,
     result |-> Base64Decode(o.result),
     return_code |-> o.return_code,
     runtime |-> o.runtime,
     queue_delay |-> o.queue_delay,
     overhead_delay |-> o.overhead_delay,
     stdout |-> o.stdout,
     stderr |-> o.stderr,
     jid |-> o.jid,
     account |-> "", container_id |-> 0, kill_requested |-> FALSE]

(***************************************************************************)
(* The specifications.  NewContext has connected to MongoDB and called     *)
(* Bootstrap; main then starts the runner and the HTTP handlers.           *)
(***************************************************************************)
\* the clock reads t, n submit handlers, f calls already failed, c chunks already emitted,
\* kill handlers in state k
InitWith(t, n, f, c, k) ==
    /\ now = t
    /\ root = BootstrapRoot(<< >>)
    /\ jobs = << >>
    /\ sub = [h \in 1..n |-> IdleSubmit]
    /\ returned = << >>
    /\ claims = << >>
    /\ claimErrs = << >>
    /\ usage = << >>
    /\ runner = << >>
    /\ pc = << >>
    /\ mem = << >>
    /\ att = << >>
    /\ ctr = << >>
    /\ kill = [i \in Kills |-> k]
    /\ chunks = c
    /\ faults = f
    /\ admin = FirstAdmin
    /\ list = NoList

\* the requests of the lifecycle specification: one valid job each
SingleJobs == [1..1 -> GoodJobs]

\* the kill requests of the lifecycle and of the queue specification: by the
\* administrator, for the jid of any submit request, without sudo
LifecycleKills ==
    { [cred |-> AdminCredentials, jid |-> j, sudo |-> FALSE] : j \in 1..MaxJobs }

QueueKills ==
    { [cred |-> AdminCredentials, jid |-> j, sudo |-> FALSE] : j \in 1..MaxQueued }

\* the requests of the queue specification: one job each, its result stdout
StdoutJobs == [1..1 -> {j \in GoodJobs : j.result_source = "stdout"}]

Submit(batches) ==
    \/ \E h \in DOMAIN sub : SubmitBegin(h, batches)
    \/ \E h \in DOMAIN sub : InsertJobInc(h)
    \/ \E h \in DOMAIN sub : InsertJobInsert(h)

Execute ==
    \/ \E j \in DOMAIN pc : ExecStartRaced(j)
    \/ \E j \in DOMAIN pc : ExecUsageRaced(j)
    \/ \E j \in DOMAIN pc : ExecCreate(j)
    \/ \E j \in DOMAIN pc : ExecFailed(j)
    \/ \E j \in DOMAIN pc : ExecPersistID(j)
    \/ \E j \in DOMAIN pc : ExecStart(j)
    \/ \E j \in DOMAIN pc : ExecOverhead(j)
    \/ \E j \in DOMAIN pc : ExecWait(j)
    \/ \E j \in DOMAIN pc : ExecKillRequested(j)
    \/ \E j \in DOMAIN pc : ExecExtract(j)
    \/ \E j \in DOMAIN pc : ExecRemove(j)
    \/ \E j \in DOMAIN pc : ExecUsage(j)
    \/ \E j \in DOMAIN pc : ExecFinal(j)
    \/ \E j \in DOMAIN pc : ContainerExit(j)

Attach ==
    \/ \E j \in DOMAIN pc : AttachWrite(j)
    \/ \E j \in DOMAIN pc : AttachUpdate(j)

Kill(requests) ==
    \/ \E k \in Kills : KillBegin(k, requests)
    \/ \E k \in Kills : KillUpdate(k)
    \/ \E k \in Kills : KillContainer(k)

\* the kill handler where no runner claims a job: no job has a container id,
\* and the handler ends after UpdateJob
KillUnclaimed(requests) ==
    \/ \E k \in Kills : KillBegin(k, requests)
    \/ \E k \in Kills : KillUpdate(k)

\* The lifecycle specification: every operation, every call may fail.
Init == InitWith(1, MaxJobs, 0, 0, IdleKill)

Next ==
    Bootstrap \/ Submit(SingleJobs) \/ Claim \/ Execute \/ Attach
        \/ Kill(LifecycleKills)

Spec == Init /\ [][Next]_vars

\* The queue specification: several jobs in the queue and in execution
\* at once, with containers that print nothing and calls that succeed; the
\* clock is one reading before its last.
InitQueue == InitWith(MaxTicks - 1, MaxQueued, MaxFaults, MaxChunks, IdleKill)

ExecuteQueue ==
    \/ \E j \in DOMAIN pc : ExecCreate(j)
    \/ \E j \in DOMAIN pc : ExecPersistID(j)
    \/ \E j \in DOMAIN pc : ExecStart(j)
    \/ \E j \in DOMAIN pc : ExecOverhead(j)
    \/ \E j \in DOMAIN pc : ExecWait(j)
    \/ \E j \in DOMAIN pc : ExecKillRequested(j)
    \/ \E j \in DOMAIN pc : ExecExtract(j)
    \/ \E j \in DOMAIN pc : ExecRemove(j)
    \/ \E j \in DOMAIN pc : ExecUsage(j)
    \/ \E j \in DOMAIN pc : ExecFinal(j)
    \/ \E j \in DOMAIN pc : ContainerExit(j)

NextQueue ==
    Bootstrap \/ Submit(StdoutJobs) \/ Claim \/ ExecuteQueue \/ Kill(QueueKills)

SpecQueue == InitQueue /\ [][NextQueue]_vars

\* The submit specification: concurrent requests with batches of valid and
\* invalid jobs.
InitSubmit == InitWith(1, MaxSubmits, 0, 0, IdleKill)

\* the requests of the submit specification
SubmitBatches == Batches(GoodJobs \cup BadJobs)

NextSubmit == Bootstrap \/ Submit(SubmitBatches)

SpecSubmit == InitSubmit /\ [][NextSubmit]_vars

\* The validation specification: requests with one job, of any
\* combination of fields; no call fails.
InitValidate == InitWith(1, MaxSubmits, MaxFaults, 0, IdleKill)

\* the requests of the validation specification
ValidateJobs == [1..1 -> AllJobs]

NextValidate == Submit(ValidateJobs)

SpecValidate == InitValidate /\ [][NextValidate]_vars

\* A restart of the process, with any administrator in its settings:
\* NewContext calls Bootstrap; the handlers and goroutines of the old process
\* are gone, the collections and the containers remain.
Restart ==
    /\ root /= << >>
    /\ root[1].job_id < MaxListJobs
    /\ \E name \in Accounts : admin' = name
    /\ root' = BootstrapRoot(root)
    /\ sub' = [h \in DOMAIN sub |-> IdleSubmit]
    /\ kill' = [k \in Kills |-> IdleKill]
    /\ runner' = << >>
    /\ pc' = << >>
    /\ mem' = << >>
    /\ att' = << >>
    /\ list' = NoList
    /\ UNCHANGED <<now, jobs, returned, claims, claimErrs, usage, ctr, chunks, faults>>

\* the credentials of the administrators
Keys == { [ok |-> TRUE, name |-> a, key |-> AdminKey] : a \in Accounts }

\* The list specification: the process restarts with another administrator,
\* so that the collection holds the jobs of two accounts; jobs with and
\* without a name; kill requests; list requests with every filter.  The
\* clock has reached its last reading.
InitList == InitWith(MaxTicks, 1, MaxFaults, 0, IdleKill)

NamedJobs ==
    [1..1 -> { [name |-> n, cmd |-> "run", result_source |-> "stdout",
                result_type |-> "binary"] : n \in {"", "a"} }]

\* the jid lists of the list requests: none, one or two jids
JIDLists == UNION { [1..n -> 1..MaxListJobs] : n \in 0..2 }

ListRequests ==
    { [cred |-> c, jids |-> js, names |-> ns, statuses |-> ss, limit |-> l,
       before |-> b, after |-> a] :
        c \in Keys, js \in JIDLists,
        ns \in {<< >>, <<"a">>, <<"a", "b">>},
        ss \in {<< >>, <<StatusKilled>>, <<StatusQueued, StatusKilled>>},
        l \in {<< >>, <<"1">>},
        b \in {<< >>, <<MaxListJobs>>}, a \in {<< >>, <<MaxListJobs>>} }

\* requests that end before the storage call
BadListRequests ==
    { [cred |-> c, jids |-> js, names |-> << >>, statuses |-> << >>,
       limit |-> l, before |-> b, after |-> a] :
        c \in Credentials, js \in {<< >>, <<-1>>}, l \in {<< >>, <<"0">>},
        b \in {<< >>, <<-1>>}, a \in {<< >>, <<-1>>, <<0>>} }

AllListRequests == ListRequests \cup BadListRequests

\* kill requests for the first job, which make it killed
OwnKills == { [cred |-> c, jid |-> 1, sudo |-> FALSE] : c \in Keys }

NextList ==
    Restart \/ Submit(NamedJobs) \/ KillUnclaimed(OwnKills)
        \/ List(AllListRequests)

SpecList == InitList /\ [][NextList]_vars

\* The bounds specification: up to three jobs of two accounts, and list
\* requests with every combination of jids, before and after.
InitBounds == InitWith(MaxTicks, MaxSubmits, MaxFaults, 0, IdleKill)

BoundRequests ==
    { [cred |-> c, jids |-> js, names |-> << >>, statuses |-> << >>,
       limit |-> << >>, before |-> b, after |-> a] :
        c \in Keys, js \in JIDLists,
        b \in {<< >>} \cup {<<n>> : n \in 0..MaxBound},
        a \in {<< >>} \cup {<<n>> : n \in 0..MaxBound} }

NextBounds == Restart \/ Submit(SingleJobs) \/ List(BoundRequests)

SpecBounds == InitBounds /\ [][NextBounds]_vars

\* The restart specification: submit requests, calls of Bootstrap, and
\* restarts of the process; every call may fail.
InitRestart == InitWith(1, MaxSubmits, 0, 0, IdleKill)

NextRestart == Bootstrap \/ Restart \/ Submit(SingleJobs)

SpecRestart == InitRestart /\ [][NextRestart]_vars

\* The sudo specification: the jobs of two accounts, and kill requests with
\* and without sudo, by every caller.
InitSudo == InitWith(MaxTicks, 1, 0, 0, IdleKill)

SudoKills ==
    { [cred |-> c, jid |-> j, sudo |-> sudo] :
        c \in Credentials, j \in -1..MaxListJobs, sudo \in BOOLEAN }

NextSudo == Restart \/ Submit(NamedJobs) \/ KillUnclaimed(SudoKills)

SpecSudo == InitSudo /\ [][NextSudo]_vars

\* The limit specification: two jobs of the administrator, and list requests
\* with every kind of limit.
InitLimit == InitWith(MaxTicks, MaxSubmits, 0, 0, IdleKill)

\* the limit parameter as the client writes it, in bytes
LimitValues ==
    { << >>, <<"0">>, <<"1">>, <<"2">>, <<"0", "0", "2">>, <<"+", "2">>,
      <<"-", "1">>, <<"-", "0">>, <<"x">>, <<"1", "x">>, <<"-">>,
      <<"9", "9", "9", "9">>, <<"1", "0", "0", "0", "0">>,
      <<"9", "9", "9", "9", "9", "9">>,
      MaxInt64, [MaxInt64 EXCEPT ![19] = "8"],
      <<"-">> \o [MaxInt64 EXCEPT ![19] = "8"],
      <<"-">> \o [MaxInt64 EXCEPT ![19] = "9"],
      <<"9", "9", "9", "9", "9", "9", "9", "9", "9", "9",
        "9", "9", "9", "9", "9", "9", "9", "9", "9", "9">> }

LimitRequests ==
    { [cred |-> c, jids |-> << >>, names |-> << >>, statuses |-> ss,
       limit |-> l, before |-> << >>, after |-> << >>] :
        c \in {NoCredentials, AdminCredentials},
        ss \in {<< >>, <<StatusQueued>>}, l \in LimitValues }

NextLimit == Submit(SingleJobs) \/ List(LimitRequests)

SpecLimit == InitLimit /\ [][NextLimit]_vars

\* The JSON specification: the collection holds one job of the administrator,
\* queued or done, with timestamps on and between whole milliseconds and
\* with output of every length up to four bytes, and the process has
\* restarted since; list requests without a filter.
JSONTimes ==
    {1, NanosPerMilli - 1, NanosPerMilli, NanosPerMilli + 1,
     NanosPerSecond + 500 * NanosPerMilli, 2 * NanosPerSecond}

JSONTexts ==
    {<< >>, <<97>>, <<97, 98>>, <<104, 105, 33>>, <<255>>, <<97, 255, 98, 99>>}

\* a job as InsertJob stores it
JSONQueuedJobs ==
    { [NewSubmittedJob([name |-> n, cmd |-> "run", result_source |-> "stdout",
                        result_type |-> "binary"], c, FirstAdmin)
          EXCEPT !.jid = 1] :
        n \in {"", "a"}, c \in JSONTimes }

\* a job as the last UpdateJob of its executor stores it after exit code 0
JSONDoneJobs ==
    { [Finished(Overhead(Started(q, t[1]), t[2]), t[3])
          EXCEPT !.status = StatusDone, !.container_id = 1,
                 !.stdout = out, !.result = out, !.stderr = err] :
        q \in {j \in JSONQueuedJobs : j.job.name = ""},
        t \in {s \in [1..3 -> JSONTimes] : s[1] <= s[2] /\ s[2] <= s[3]},
        out \in JSONTexts, err \in {<< >>, <<255>>} }

\* the clock does not go back between InsertJob and Execute
StoredJobs ==
    JSONQueuedJobs \cup {d \in JSONDoneJobs : d.created_at <= d.started_at}

InitJSON ==
    /\ \E d \in StoredJobs :
          /\ jobs = (1 :> d)
          /\ claims = IF d.status = StatusQueued THEN << >> ELSE <<1>>
          /\ ctr = IF d.status = StatusQueued THEN << >>
                   ELSE (1 :> [NoContainer EXCEPT !.state = "removed",
                                                  !.started = TRUE])
    /\ now = 2 * NanosPerSecond
    /\ root = IncJobID(BootstrapRoot(<< >>))
    /\ returned = <<1>>
    /\ claimErrs = << >>
    /\ usage = << >>
    /\ sub = [h \in 1..1 |-> IdleSubmit]
    /\ runner = << >>
    /\ pc = << >>
    /\ mem = << >>
    /\ att = << >>
    /\ kill = [i \in Kills |-> IdleKill]
    /\ chunks = MaxChunks
    /\ faults = MaxFaults
    /\ admin = FirstAdmin
    /\ list = NoList

JSONRequests ==
    { [cred |-> c, jids |-> << >>, names |-> << >>, statuses |-> << >>,
       limit |-> << >>, before |-> << >>, after |-> << >>] :
        c \in {NoCredentials, AdminCredentials} }

NextJSON == List(JSONRequests)

SpecJSON == InitJSON /\ [][NextJSON]_vars

\* The runner specification: the queue holds a job that fails Validate, left
\* there by another writer of the collection (JobSubmitHandler inserts valid
\* jobs only), and valid jobs are submitted behind it; the runner claims,
\* executors run, and every call may fail.  The runner loop never ends, so
\* its iteration is taken again and again.
InvalidQueuedJobs ==
    { [NewSubmittedJob(b, 1, FirstAdmin) EXCEPT !.jid = 1] : b \in BadJobs }

InitRunner ==
    /\ \E d \in InvalidQueuedJobs : jobs = (1 :> d)
    /\ now = 1
    /\ root = IncJobID(BootstrapRoot(<< >>))
    /\ sub = [h \in 1..MaxJobs |-> IdleSubmit]
    /\ returned = << >>
    /\ claims = << >>
    /\ claimErrs = << >>
    /\ usage = << >>
    /\ runner = << >>
    /\ pc = << >>
    /\ mem = << >>
    /\ att = << >>
    /\ ctr = << >>
    /\ kill = [i \in Kills |-> IdleKill]
    /\ chunks = MaxChunks
    /\ faults = 0
    /\ admin = FirstAdmin
    /\ list = NoList

NextRunner == Submit(StdoutJobs) \/ Claim \/ Execute

SpecRunner == InitRunner /\ [][NextRunner]_vars /\ WF_vars(Claim)

\* The polling specification: several submit requests, Kill requests for
\* jobs that have no container yet, and the runner, whose ClaimJob may fail;
\* executors are launched but not run.  Runner calls Claim in an endless
\* loop, so its iteration is weakly fair.
InitPoll == InitWith(1, MaxQueued, 0, MaxChunks, IdleKill)

NextPoll == Submit(StdoutJobs) \/ Claim \/ KillUnclaimed(QueueKills)

SpecPoll == InitPoll /\ [][NextPoll]_vars /\ WF_vars(Claim)

(***************************************************************************)
(* Properties.                                                             *)
(***************************************************************************)
Range(f) == {f[i] : i \in DOMAIN f}

\* submit requests between the two storage calls of InsertJob
InFlight == {h \in DOMAIN sub : sub[h].pc = "insert"}

\* C1: no two ClaimJob calls return the same job, so a job has at most one
\* executor: of the calls that race for a queued job one gets it, and the
\* others get nil or another job.
C1_ClaimedOnce ==
    \A a, b \in DOMAIN claims : a /= b => claims[a] /= claims[b]

\* two ClaimJob calls have returned a job each while both jobs were queued
C1_Witness ==
    /\ Len(claims) >= 2
    /\ \A j \in Range(claims) : jobs[j].status /= StatusQueued

\* C2: InsertJob never produces a jid twice: the jids returned are pairwise
\* distinct, a jid allocated to a call in flight is neither returned already
\* nor allocated to another call, the responses of two requests share no
\* jid, and every stored job is stored under its own jid.
C2_NoDuplicateJids ==
    /\ \A a, b \in DOMAIN returned : a /= b => returned[a] /= returned[b]
    /\ \A h \in InFlight :
          /\ sub[h].job.jid \notin Range(returned)
          /\ \A g \in InFlight \ {h} : sub[g].job.jid /= sub[h].job.jid
    /\ \A h, g \in DOMAIN sub :
          h /= g => Range(sub[h].jids) \cap Range(sub[g].jids) = {}
    /\ \A j \in DOMAIN jobs : jobs[j].jid = j

\* the same batch of two jobs was submitted twice, and both requests got
\* their jids
C2_Witness ==
    \E h, g \in DOMAIN sub :
        /\ h /= g
        /\ sub[h].batch = sub[g].batch
        /\ Len(sub[h].batch) >= 2
        /\ sub[h].pc = "done" /\ Len(sub[h].jids) = Len(sub[h].batch)
        /\ sub[g].pc = "done" /\ Len(sub[g].jids) = Len(sub[g].batch)

\* C3 (as claimed): every jid InsertJob returns is greater than every jid
\* returned before it, also when the calls overlap.
C3_ReturnedIncreasing ==
    \A a, b \in DOMAIN returned : a < b => returned[a] < returned[b]

\* C4 (as claimed): once the stored status of a job is done, error, killed
\* or stalled, no step changes it (here: in the runs where no call fails).
C4_TerminalStays ==
    [][\A j \in DOMAIN jobs :
          (faults' = 0 /\ jobs[j].status \in completedStatus)
              => jobs'[j].status = jobs[j].status]_vars

\* C5 (as claimed): a job that a kill request read as queued and wrote back
\* as killed is never returned by ClaimJob and never gets a container (here:
\* in the runs where no call fails).
C5_KilledQueuedNeverClaimed ==
    \A k \in Kills :
        (faults = 0 /\ kill[k].queued /\ kill[k].pc = "done" /\ kill[k].code = "")
            => /\ kill[k].job.jid \notin Range(claims)
               /\ kill[k].job.jid \notin DOMAIN ctr

\* C6 (as claimed): when a kill request has stored kill_requested for a
\* claimed job that had no stored container id yet, the container of the job
\* is never started, and the job is killed when its executor is done (here:
\* for a request that read the job after it was claimed, in the runs where
\* no call fails).
C6_EarlyKillPreventsStart ==
    \A k \in Kills :
        (faults = 0 /\ kill[k].early /\ ~kill[k].queued /\ kill[k].job.jid \in DOMAIN pc)
            => /\ ~ctr[kill[k].job.jid].started
               /\ pc[kill[k].job.jid] = "complete"
                      => jobs[kill[k].job.jid].status = StatusKilled

C8_ReturnedTerminal ==
    \A j \in DOMAIN pc :
        pc[j] \in {"returned", "complete"}
            => jobs[j].status \in {StatusDone, StatusError, StatusKilled}

\* no call has failed and nothing is about to write the job of executor j
\* any more
Quiet(j) ==
    /\ faults = 0
    /\ pc[j] = "complete"
    /\ att[j] /= "write"
    /\ \A k \in Kills : kill[k].pc \in {"idle", "done"}

\* C9 (as claimed): when the executor of a job with result_source "stdout"
\* has completed, the stored result is the stored stdout.
C9_ResultIsStdout ==
    \A j \in DOMAIN pc :
        (Quiet(j) /\ jobs[j].job.result_source = "stdout")
            => jobs[j].result = jobs[j].stdout

\* strconv.Itoa for the exit codes of the model
Digit(d) == <<"0", "1", "2", "3", "4", "5", "6", "7", "8", "9">>[d + 1]

RECURSIVE Itoa(_)
Itoa(n) == IF n < 10 THEN Digit(n) ELSE Itoa(n \div 10) \o Digit(n % 10)

\* C10 (as claimed): when the executor of a job has completed after its
\* container exited, the stored return_code is the exit code as a string
\* (here: in the runs where no call fails).
C10_ReturnCode ==
    \A j \in DOMAIN pc :
        (faults = 0 /\ pc[j] = "complete" /\ ctr[j].started
            /\ jobs[j].status \in completedStatus)
            => jobs[j].return_code = Itoa(ctr[j].exit)

\* C11: a submit request validates its jobs in order and fails with HTTP 400
\* and the code of the first invalid job; the jobs before it, and no others
\* of the batch, are inserted; an invalid job, such as one with an empty
\* command (code JCMD), is never stored.
C11_FirstInvalidFailsBatch ==
    /\ \A h \in DOMAIN sub :
          (sub[h].pc = "done" /\ sub[h].http = 400)
              => LET i == sub[h].index
                     b == sub[h].batch
                 IN  /\ i \in 1..Len(b)
                     /\ \A k \in 1..(i - 1) :
                           /\ b[k].cmd /= ""
                           /\ b[k].result_source \in {"stdout", "file:/out"}
                           /\ b[k].result_type = "binary"
                     /\ \/ b[i].cmd = "" /\ sub[h].code = "JCMD"
                        \/ /\ b[i].cmd /= ""
                           /\ b[i].result_source = "magic"
                           /\ sub[h].code = "JRSRC"
                        \/ /\ b[i].cmd /= ""
                           /\ b[i].result_source /= "magic"
                           /\ b[i].result_type = "bogus"
                           /\ sub[h].code = "JRTYPE"
                     /\ Len(sub[h].jids) = i - 1
    /\ DOMAIN jobs = UNION { Range(sub[h].jids) : h \in DOMAIN sub }
    /\ \A h \in DOMAIN sub : \A k \in DOMAIN sub[h].jids :
          jobs[sub[h].jids[k]].job = sub[h].batch[k]
    /\ \A j \in DOMAIN jobs :
          /\ jobs[j].job.cmd /= ""
          /\ jobs[j].job.result_source /= "magic"
          /\ jobs[j].job.result_type /= "bogus"

\* a request whose second job has an empty command has failed with JCMD
\* after its first job was inserted
C11_Witness ==
    \E h \in DOMAIN sub :
        /\ sub[h].pc = "done"
        /\ sub[h].code = "JCMD"
        /\ sub[h].index = 2
        /\ Len(sub[h].jids) = 1
        /\ sub[h].jids[1] \in DOMAIN jobs

\* C12: every job a submit request inserts is stored with status queued, the
\* account of the authenticated caller, a creation time, and no start or
\* finish time; a successful response has one jid for each job of the batch,
\* in the order of the batch, each the jid InsertJob returned for that job.
C12_InsertedQueued ==
    /\ \A h \in DOMAIN sub : \A k \in DOMAIN sub[h].jids :
          LET doc == jobs[sub[h].jids[k]]
          IN  /\ doc.status = "queued"
              /\ doc.account = sub[h].account
              /\ doc.account = admin
              /\ doc.created_at > 0
              /\ doc.started_at = 0
              /\ doc.finished_at = 0
              /\ doc.jid = sub[h].jids[k]
              /\ doc.job = sub[h].batch[k]
              /\ sub[h].jids[k] \in Range(returned)
    /\ \A h \in DOMAIN sub :
          (sub[h].pc = "done" /\ sub[h].http = 200)
              => /\ sub[h].code = ""
                 /\ Len(sub[h].jids) = Len(sub[h].batch)

\* a request with a batch of two jobs has succeeded
C12_Witness ==
    \E h \in DOMAIN sub :
        /\ sub[h].pc = "done"
        /\ sub[h].http = 200
        /\ Len(sub[h].batch) = 2
        /\ Len(sub[h].jids) = 2

\* the job of request h has been validated and found valid
C13_Accepted(h) ==
    \/ sub[h].pc \in {"inc", "insert"}
    \/ sub[h].pc = "done" /\ sub[h].http = 200

\* the job of request h has been rejected with the code
C13_Rejected(h, code) ==
    sub[h].pc = "done" /\ sub[h].http = 400 /\ sub[h].code = code

\* C13: Validate rejects a job with an empty command with JCMD; otherwise one
\* whose result source is neither "stdout" nor begins with "file:" with
\* JRSRC; otherwise one whose result type is neither binary nor pickle with
\* JRTYPE; and accepts every other job.
C13_ValidateOrder ==
    \A h \in DOMAIN sub :
        sub[h].batch /= << >>
            => LET j == sub[h].batch[1]
                   source == j.result_source \in {"stdout", "file:/out", "file:"}
                   type == j.result_type \in {"binary", "pickle"}
               IN  /\ j.cmd = "" => C13_Rejected(h, "JCMD")
                   /\ (j.cmd /= "" /\ ~source) => C13_Rejected(h, "JRSRC")
                   /\ (j.cmd /= "" /\ source /\ ~type) => C13_Rejected(h, "JRTYPE")
                   /\ (j.cmd /= "" /\ source /\ type) => C13_Accepted(h)

\* a job whose result source and result type are both invalid has been
\* rejected for its result source
C13_Witness ==
    \E h \in DOMAIN sub :
        /\ C13_Rejected(h, "JRSRC")
        /\ sub[h].batch[1].result_source = "xfile:/out"
        /\ sub[h].batch[1].result_type = "bogus"

\* C14: a caller sees only its own jobs: for every combination of jid, name,
\* status, limit, before and after of a list request, every job of the
\* response has the account of the authenticated caller, and the response is
\* one the same request gets when the collection holds no job of another
\* account.
C14_OwnJobsOnly ==
    list.http = 200
        => /\ list.caller = admin
           /\ \A d \in list.jobs : d.account = list.caller
           /\ list.alone

\* a request with a name and a status filter was answered with a job of the
\* caller while another account held a job that the filters select
C14_Witness ==
    /\ list.http = 200
    /\ list.others
    /\ list.jobs /= {}
    /\ list.q.Names /= << >>
    /\ list.q.Statuses /= << >>

\* C15 (as claimed): sudo is honored for the administrator only: a kill
\* request of the administrator with sudo=true finds the job of the jid
\* whatever its account, and every other kill request that finds a job finds
\* one of the caller's account.
C15_SudoOnlyAdmin ==
    \A k \in Kills :
        /\ (kill[k].pc /= "idle" /\ kill[k].caller = admin /\ kill[k].sudo
                /\ kill[k].stored /\ faults = 0)
              => kill[k].code /= CodeJobNotFound
        /\ (kill[k].pc /= "idle" /\ kill[k].job.jid /= 0 /\ ~kill[k].sudo)
              => kill[k].job.account = kill[k].caller

\* the limit is a decimal number, with or without a sign
C16_IsNumber(raw) ==
    /\ raw /= << >>
    /\ LET digits == IF raw[1] \in {"+", "-"} THEN Tail(raw) ELSE raw
       IN  digits /= << >> /\ IsDigits(digits)

\* the number is above 9999: not negative, and of more than four digits
\* after its leading zeros
C16_Above(raw) ==
    /\ C16_IsNumber(raw)
    /\ raw[1] /= "-"
    /\ Len(TrimZeros(IF raw[1] = "+" THEN Tail(raw) ELSE raw)) > 4

\* the number is below 1: zero, or negative
C16_Below(raw) ==
    /\ C16_IsNumber(raw)
    /\ \/ raw[1] = "-"
       \/ TrimZeros(IF raw[1] = "+" THEN Tail(raw) ELSE raw) = << >>

\* the number is above 1<<63 - 1
C16_AboveInt64(raw) ==
    /\ C16_Above(raw)
    /\ LET digits == TrimZeros(IF raw[1] = "+" THEN Tail(raw) ELSE raw)
       IN  \/ Len(digits) > Len(MaxInt64)
           \/ Len(digits) = Len(MaxInt64) /\ DigitsGreater(digits, MaxInt64)

\* the parts of the claim that hold as they are written: the default, the
\* rejection of a limit below 1, and the limit of every storage call
C16_Common ==
    list.caller /= ""
        => /\ list.rawLimit = << >> => (list.queried /\ list.q.Limit = 1000)
           /\ C16_Below(list.rawLimit)
                 => /\ list.http = 400
                    /\ list.code = "QINVAL"
                    /\ ~list.queried
           /\ list.queried
                 => /\ list.q.Limit \in 1..9999
                    /\ Cardinality(list.jobs) <= list.q.Limit

\* C16 (as claimed): a list request without a limit queries with limit 1000;
\* every limit above 9999 is clamped to 9999; a limit below 1 is rejected
\* with 400 QINVAL before the storage is queried; the limit of every query is
\* in 1..9999 and the response has at most that many jobs.
C16_LimitClamped ==
    /\ C16_Common
    /\ (list.caller /= "" /\ C16_Above(list.rawLimit))
          => (list.queried /\ list.q.Limit = 9999)

\* C16 (amended): as claimed, but a limit above 9999 is clamped to 9999 only
\* when it is at most 1<<63 - 1; a larger one is rejected with 400 QINVAL
\* before the storage is queried.
C16_LimitClampedInt64 ==
    /\ C16_Common
    /\ (list.caller /= "" /\ C16_Above(list.rawLimit))
          => IF C16_AboveInt64(list.rawLimit)
             THEN list.http = 400 /\ list.code = "QINVAL" /\ ~list.queried
             ELSE list.queried /\ list.q.Limit = 9999

\* a request with limit 999999 was answered with the two jobs of the caller,
\* after a query with limit 9999
C16_Witness ==
    /\ list.http = 200
    /\ list.rawLimit = <<"9", "9", "9", "9", "9", "9">>
    /\ list.q.Limit = 9999
    /\ Cardinality(list.jobs) = 2

\* the jid is below the bound before and not below the bound after of the
\* query, where a bound of 0 is no bound
C17_InRange(q, jid) ==
    /\ q.Before /= 0 => jid < q.Before
    /\ q.After /= 0 => jid >= q.After

C18_BoundsHold ==
    list.http = 200
        => \A d \in list.jobs :
              /\ list.q.Before /= 0 => d.jid < list.q.Before
              /\ list.q.After /= 0 => d.jid >= list.q.After

\* C19: Bootstrap is idempotent, also after InsertJob calls and on a restart:
\* it leaves the root record as it is, so the counter is never below a jid
\* that InsertJob returned or took, and the jids allocated before and after
\* a restart are all different.
C19_BootstrapIdempotent ==
    /\ root /= << >>
    /\ BootstrapRoot(root) = root
    /\ \A i \in DOMAIN returned : returned[i] <= root[1].job_id
    /\ \A h \in DOMAIN sub : sub[h].job.jid <= root[1].job_id
    /\ \A i, k \in DOMAIN returned : returned[i] = returned[k] => i = k
    /\ \A j \in DOMAIN jobs : jobs[j].jid = j /\ j <= root[1].job_id

\* two jobs of two accounts are stored: the process was restarted, and
\* Bootstrap called, between their InsertJob calls
C19_Witness ==
    /\ Len(returned) >= 2
    /\ \E i, k \in DOMAIN jobs : jobs[i].account /= jobs[k].account
    /\ root[1].job_id >= 2

\* C20 (as claimed): when the container of a job ran to its exit and the
\* executor has completed, the stored queue_delay, overhead_delay and runtime
\* are not negative and their sum is at most finished_at - created_at (here:
\* in the runs where no call fails).
C20_DelaysAddUp ==
    \A j \in DOMAIN pc :
        (faults = 0 /\ pc[j] = "complete" /\ ctr[j].started
            /\ mem[j].finished_at /= 0)
            => LET doc == jobs[j]
               IN  /\ doc.queue_delay >= 0
                   /\ doc.overhead_delay >= 0
                   /\ doc.runtime >= 0
                   /\ doc.queue_delay + doc.overhead_delay + doc.runtime
                          <= doc.finished_at - doc.created_at

\* C21 (as claimed): every stored job with status done, error or killed has
\* finished_at >= started_at >= created_at, however it got the status: by
\* the exit of its container, by a failure to create, start or wait for the
\* container, by a kill before the start, or by a kill while it was queued.
C21_TimestampsOrdered ==
    \A j \in DOMAIN jobs :
        jobs[j].status \in {StatusDone, StatusError, StatusKilled}
            => /\ jobs[j].finished_at >= jobs[j].started_at
               /\ jobs[j].started_at >= jobs[j].created_at

\* C22 (as claimed): JSON encode followed by decode of a SubmittedJob gives
\* the job back: every job of a list response, decoded from the JSON
\* written for it, equals the stored job, with its created_at, started_at
\* and finished_at (here: in every field that has a JSON key; account,
\* container_id and kill_requested have none).
C22_RoundTrip ==
    list.http = 200
        => \A d \in list.jobs :
              DecodeJob(EncodeJob(d)) =
                  [d EXCEPT !.account = "", !.container_id = 0,
                            !.kill_requested = FALSE]

\* the timestamp without what is below a millisecond
C22_Millis(t) == t - (t % NanosPerMilli)

\* the text holds ASCII bytes only
C22_ASCII(s) == \A i \in DOMAIN s : s[i] < 128

\* C22 (amended): JSON encode followed by decode of a SubmittedJob, as the
\* list handler writes it, gives the job back but for this: created_at,
\* started_at and finished_at come back cut to whole milliseconds, so they
\* are the original ones only when those are whole milliseconds; account,
\* container_id and kill_requested are not written and come back as their
\* zero values; stdout and stderr come back as they were when they are valid
\* UTF-8, and differ when they hold an invalid byte.  The job's fields, the
\* status, the result, the return code, the delays, the runtime and the jid
\* come back as they were.
C22_RoundTripMillis ==
    list.http = 200
        => \A d \in list.jobs :
              LET back == DecodeJob(EncodeJob(d))
              IN  /\ back.created_at = C22_Millis(d.created_at)
                  /\ back.started_at = C22_Millis(d.started_at)
                  /\ back.finished_at = C22_Millis(d.finished_at)
                  /\ back.account = "" /\ back.container_id = 0
                  /\ ~back.kill_requested
                  /\ C22_ASCII(d.stdout) <=> back.stdout = d.stdout
                  /\ C22_ASCII(d.stderr) <=> back.stderr = d.stderr
                  /\ back.job = d.job /\ back.status = d.status
                  /\ back.result = d.result
                  /\ back.return_code = d.return_code
                  /\ back.runtime = d.runtime
                  /\ back.queue_delay = d.queue_delay
                  /\ back.overhead_delay = d.overhead_delay
                  /\ back.jid = d.jid

\* a done job with three different timestamps of whole milliseconds and a
\* result of three bytes was listed, and its JSON decodes to the job but for
\* the account and the container id
C22_Witness ==
    /\ list.http = 200
    /\ \E d \in list.jobs :
          /\ d.status = StatusDone
          /\ d.created_at = NanosPerMilli
          /\ d.started_at = NanosPerSecond + 500 * NanosPerMilli
          /\ d.finished_at = 2 * NanosPerSecond
          /\ Len(d.result) = 3
          /\ d.account /= "" /\ d.container_id /= 0
          /\ DecodeJob(EncodeJob(d)) =
                [d EXCEPT !.account = "", !.container_id = 0]

\* C23: ClaimJob returns a job that was queued and that no queued job was
\* older than, by created_at, and in the same step stores it as processing
\* and changes nothing else of it or of any other job; the job returned is
\* the stored one, and is what the executor starts from; no other step takes
\* a job from queued to processing; and when no job is queued, the runner's
\* iteration gets nil and changes nothing.
C23_ClaimsOldest ==
    [][/\ claims' /= claims
            => LET j == claims'[Len(claims')]
               IN  /\ claims' = Append(claims, j)
                   /\ j \in DOMAIN jobs
                   /\ jobs[j].status = StatusQueued
                   /\ \A k \in DOMAIN jobs :
                         jobs[k].status = StatusQueued
                             => jobs[j].created_at <= jobs[k].created_at
                   /\ jobs' = [jobs EXCEPT ![j].status = StatusProcessing]
                   /\ \/ j \in DOMAIN mem' /\ mem'[j] = jobs'[j]
                      \/ runner' = <<[jobs'[j] EXCEPT !.status = StatusError]>>
       /\ \A j \in DOMAIN jobs :
             (jobs[j].status = StatusQueued /\ jobs'[j].status = StatusProcessing)
                 => claims' = Append(claims, j)
       /\ (Claim /\ \A j \in DOMAIN jobs : jobs[j].status /= StatusQueued)
             => UNCHANGED <<jobs, claims, runner, pc, mem, att, ctr>>]_vars

\* two jobs were inserted, the second with the smaller created_at, and
\* the one ClaimJob call so far returned the second while the first was
\* queued, as it still is
C23_Witness ==
    /\ Len(returned) = 2
    /\ Len(claims) = 1
    /\ claims[1] = returned[2]
    /\ jobs[returned[1]].status = StatusQueued
    /\ jobs[returned[1]].created_at > jobs[returned[2]].created_at
    /\ jobs[returned[2]].status = StatusProcessing

\* C24 (as claimed): InsertJob advances the jid counter and stores the job
\* under the new jid, or on failure does neither: the counter is never
\* advanced for a jid under which no job is stored (here: in the states
\* where no InsertJob call is in flight).
C24_AllocationAtomic ==
    (root /= << >> /\ \A h \in DOMAIN sub : sub[h].pc \in {"idle", "done"})
        => \A j \in 1..root[1].job_id : j \in DOMAIN jobs

\* the edges of the status state machine
C25_Edge(from, to) ==
    \/ from = StatusQueued /\ to \in {StatusProcessing, StatusKilled}
    \/ from = StatusProcessing /\ to \in {StatusDone, StatusError, StatusKilled}

\* C25 (as claimed): the status values that the UpdateJob calls of one
\* executor and of its output collectors store, one after the other, follow
\* the edges of the status state machine, and once they have stored a
\* terminal status they store no other (here: in the runs without a kill
\* request, where every change of a claimed job's stored status is such a
\* call).
C25_ExecutorStatusMonotonic ==
    [][(\A k \in Kills : kill'[k].pc = "idle")
            => \A j \in DOMAIN pc :
                  jobs'[j].status /= jobs[j].status
                      => C25_Edge(jobs[j].status, jobs'[j].status)]_vars

\* C26 (as claimed): when StartContainer or WaitContainer fails, the
\* executor sets status error, persists it and goes on to the cleanup: when
\* it has returned, the container it created has been removed (here: the
\* one failing call of the run is the Start or the Wait, so RemoveContainer
\* does not fail).
C26_FailedStartCleansUp ==
    \A j \in DOMAIN pc :
        (pc[j] \in {"returned", "complete"} /\ mem[j].status = StatusError
            /\ mem[j].finished_at = 0 /\ ctr[j].state /= "none")
            => ctr[j].state = "removed"

\* C27: when WaitContainer has returned the exit code, the executor decides
\* the status: done for exit code 0, whether or not a kill was requested;
\* for any other exit code killed when JobKillRequested returns true and
\* error when it returns false; the result extraction that follows leaves
\* the status as decided or, when it fails (the result is a file then),
\* makes it error; and nothing else changes the status decided.
C27_StatusDecision ==
    [][\A j \in DOMAIN pc :
          /\ (pc[j] = "wait" /\ pc'[j] = "extract")
                => /\ ctr[j].exit = 0
                   /\ mem'[j].status = StatusDone
          /\ (pc[j] = "wait" /\ pc'[j] = "kill_requested")
                => ctr[j].exit /= 0
          /\ (pc[j] = "kill_requested" /\ pc'[j] = "extract")
                => /\ ctr[j].exit /= 0
                   /\ JobKillRequested(jobs, j) => mem'[j].status = StatusKilled
                   /\ ~JobKillRequested(jobs, j) => mem'[j].status = StatusError
          /\ (pc[j] = "extract" /\ pc'[j] /= "extract")
                => /\ pc'[j] = "remove"
                   /\ mem'[j].status \in {mem[j].status, StatusError}
                   /\ mem'[j].status /= mem[j].status
                         => mem[j].job.result_source /= "stdout"
          /\ (pc[j] \in {"remove", "usage", "final", "complete"} /\ mem[j].finished_at /= 0)
                => mem'[j].status = mem[j].status]_vars

\* a job for which a kill request was stored while its command exited by
\* itself with code 0 has completed, with status done after the decision
C27_Witness ==
    \E j \in DOMAIN pc :
        /\ pc[j] = "complete"
        /\ ctr[j].exit = 0
        /\ jobs[j].kill_requested
        /\ mem[j].status = StatusDone

\* the jids of the runner specification
C28_Jids == 1..(MaxJobs + 1)

C29_ClaimErrorSwallowed ==
    /\ [][claimErrs' /= claimErrs
              => UNCHANGED <<jobs, claims, runner, pc, mem, att, ctr>>]_vars
    /\ \A k \in C28_Jids :
          (\E i \in DOMAIN claimErrs : k \in claimErrs[i])
              ~> (k \in Range(claims))

\* a valid job was queued when ClaimJob failed, and now has been claimed and
\* runs
C29_Witness ==
    /\ claimErrs /= << >>
    /\ \E k \in claimErrs[1] :
          /\ Validate(jobs[k].job) = ""
          /\ k \in Range(claims)
          /\ k \in DOMAIN pc

(***************************************************************************)
(* C30: persisted output only grows.  In every step the stored stdout of   *)
(* every job is a prefix of its stored stdout after the step, and so is    *)
(* its stderr, whichever of the collector, the executor and a Kill request *)
(* makes the step.                                                         *)
(***************************************************************************)
C30_Prefix(s, t) == Len(s) <= Len(t) /\ SubSeq(t, 1, Len(s)) = s

C30_OutputOnlyGrows ==
    [][\A j \in DOMAIN jobs :
          /\ j \in DOMAIN jobs'
          /\ C30_Prefix(jobs[j].stdout, jobs'[j].stdout)
          /\ C30_Prefix(jobs[j].stderr, jobs'[j].stderr)]_vars

(***************************************************************************)
(* C31 (as claimed): an executor that reaches cleanup calls                *)
(* RemoveContainer, then UpdateAccountUsage with the job's account and     *)
(* runtime, once, and then makes its last UpdateJob, which stores the      *)
(* final status, result, finished_at and runtime; UpdateAccountUsage is    *)
(* never called twice for one job, and never for a job whose executor did  *)
(* not reach cleanup.                                                      *)
(***************************************************************************)
C31_UsageOf(j) == {i \in DOMAIN usage : usage[i].jid = j}

C31_CleanupOrder ==
    /\ [](\A j \in DOMAIN pc :
             /\ Cardinality(C31_UsageOf(j)) =
                    IF pc[j] \in {"final", "complete"} THEN 1 ELSE 0
             /\ \A i \in C31_UsageOf(j) :
                   /\ usage[i].account = mem[j].account
                   /\ usage[i].runtime = mem[j].runtime)
    /\ [][\A j \in DOMAIN pc :
             /\ C31_UsageOf(j)' /= C31_UsageOf(j)
                   => /\ pc[j] = "usage"
                      /\ ctr[j].state = "removed" \/ faults > 0
             /\ pc'[j] = "usage" /\ pc[j] /= "usage"
                   => /\ pc[j] = "remove"
                      /\ ctr'[j].state = "removed" \/ faults' > faults
             /\ (pc'[j] = "complete" /\ pc[j] /= "complete")
                   => /\ pc[j] = "final"
                      /\ faults' = faults
                            => /\ jobs'[j].status = mem[j].status
                               /\ jobs'[j].result = mem[j].result
                               /\ jobs'[j].finished_at = mem[j].finished_at
                               /\ jobs'[j].runtime = mem[j].runtime]_vars

(***************************************************************************)
(* C32: the container id is stored before the kill check and before the    *)
(* start.  Whenever the container of a job has been started, the stored    *)
(* job holds its container id; the executor leaves the step that persists  *)
(* the id with the id stored, or returns; and an executor that has         *)
(* returned never starts its container.                                    *)
(***************************************************************************)
C32_ContainerIDFirst ==
    /\ [](\A j \in DOMAIN ctr :
             ctr[j].started => jobs[j].container_id = mem[j].container_id
                               /\ jobs[j].container_id /= 0)
    /\ [][\A j \in DOMAIN pc :
             /\ (pc[j] = "persist_id" /\ pc'[j] /= "persist_id")
                   => IF faults' > faults
                      THEN pc'[j] = "returned" /\ ~ctr'[j].started
                      ELSE /\ jobs'[j].container_id /= 0
                           /\ pc'[j] \in {"start", "remove"}
             /\ (pc'[j] = "start" /\ pc[j] /= "start") => pc[j] = "persist_id"
             /\ ctr'[j].started /\ ~ctr[j].started => pc[j] = "start"
             /\ pc[j] = "returned"
                   => pc'[j] = "returned" /\ ctr'[j].started = ctr[j].started]_vars

\* the container was started, and a Kill request that had read the job
\* without a container id has written its copy since
C32_Witness ==
    \E j \in DOMAIN ctr, k \in Kills :
        /\ ctr[j].started
        /\ kill[k].pc = "done" /\ kill[k].code = "" /\ kill[k].job.jid = j
        /\ kill[k].job.container_id = 0
        /\ jobs[j].kill_requested /\ jobs[j].container_id /= 0

(***************************************************************************)
(* C33: no job is executed more than once.  No step takes the stored       *)
(* status of a job from another value back to queued, no jid is returned   *)
(* by two ClaimJob calls, every executor belongs to a claimed job, and a   *)
(* job's container, once created, is never created again.                  *)
(***************************************************************************)
C33_ExecutedOnce ==
    /\ [](/\ \A a, b \in DOMAIN claims : claims[a] = claims[b] => a = b
          /\ \A j \in DOMAIN pc :
                j \in Range(claims) /\ jobs[j].status /= StatusQueued)
    /\ [][\A j \in DOMAIN jobs :
             /\ jobs[j].status /= StatusQueued => jobs'[j].status /= StatusQueued
             /\ j \in DOMAIN ctr
                   => /\ j \in DOMAIN ctr'
                      /\ ctr[j].state /= "none" => ctr'[j].state /= "none"
                      /\ (ctr'[j].state = "created" /\ ctr[j].state /= "created")
                            => ctr[j].state = "none" /\ pc[j] = "create"]_vars

\* a Kill request read the job as queued, the runner claimed it and its
\* executor created the container, and then the Kill request wrote its copy
C33_Witness ==
    \E j \in DOMAIN ctr, k \in Kills :
        /\ kill[k].queued /\ kill[k].pc = "done" /\ kill[k].code = ""
        /\ kill[k].job.jid = j
        /\ ctr[j].state /= "none"
        /\ jobs[j].status = StatusKilled

(***************************************************************************)
(* C34: kill_requested is sticky.  Once the stored job has kill_requested  *)
(* set, every later step leaves it set, whoever writes the job, so         *)
(* JobKillRequested returns true from then on.                             *)
(***************************************************************************)
C34_KillRequestedSticky ==
    [][\A j \in DOMAIN jobs :
          JobKillRequested(jobs, j)
              => j \in DOMAIN jobs' /\ JobKillRequested(jobs', j)]_vars

\* a Kill request stored the flag for a running job, and the executor, whose
\* in-memory job has the flag unset, has stored status killed since
C34_Witness ==
    \E j \in DOMAIN pc, k \in Kills :
        /\ kill[k].job.jid = j /\ kill[k].pc = "done"
        /\ kill[k].job.status = StatusProcessing
        /\ ~mem[j].kill_requested
        /\ pc[j] = "complete"
        /\ jobs[j].status = StatusKilled
        /\ jobs[j].kill_requested

(***************************************************************************)
(* C35: a Kill request changes only kill_requested and, for a queued job,  *)
(* status.  The step in which the handler's UpdateJob succeeds leaves the  *)
(* stored stdout, stderr, result, timestamps, runtime and delays of the    *)
(* job as they were immediately before it (here: in the runs where no      *)
(* call fails).                                                            *)
(***************************************************************************)
C35_KillFrame ==
    [][\A k \in Kills :
          (kill[k].pc = "update" /\ kill'[k].pc /= "update" /\ faults' = 0)
              => LET j == kill[k].job.jid
                 IN  /\ jobs'[j].stdout = jobs[j].stdout
                     /\ jobs'[j].stderr = jobs[j].stderr
                     /\ jobs'[j].result = jobs[j].result
                     /\ jobs'[j].started_at = jobs[j].started_at
                     /\ jobs'[j].finished_at = jobs[j].finished_at
                     /\ jobs'[j].runtime = jobs[j].runtime
                     /\ jobs'[j].queue_delay = jobs[j].queue_delay
                     /\ jobs'[j].overhead_delay = jobs[j].overhead_delay]_vars

(***************************************************************************)
(* C36 (as claimed): the executor takes the start as failed if and only if *)
(* StartContainer returned an error.  An executor on the path of a failed  *)
(* start has a container that was not started, and an executor past the    *)
(* start has a container that was started.                                 *)
(***************************************************************************)
C36_StartErrorOnly ==
    \A j \in DOMAIN pc :
        /\ pc[j] = "start_failed" => ~ctr[j].started
        /\ pc[j] \in {"overhead", "wait", "kill_requested", "extract"}
              => ctr[j].started

(***************************************************************************)
(* C37 (as claimed): whenever the stored status of a job is done, its      *)
(* executor has extracted the result, and the stored result and            *)
(* finished_at are those of the executor's in-memory job, which do not     *)
(* change any more (here: in the runs where no call fails).                *)
(***************************************************************************)
C37_DoneMeansResult ==
    \A j \in DOMAIN pc :
        (faults = 0 /\ jobs[j].status = StatusDone)
            => /\ pc[j] \in {"remove", "usage", "final", "complete"}
               /\ jobs[j].result = mem[j].result
               /\ jobs[j].finished_at = mem[j].finished_at

(***************************************************************************)
(* C38: no starvation in the queue.  With a runner that keeps polling and  *)
(* a ClaimJob that fails only finitely often, every job that is queued is  *)
(* eventually claimed, unless it is killed; and the job a ClaimJob call    *)
(* returns is one that no queued job precedes in created_at.               *)
(***************************************************************************)
C38_Jids == 1..(MaxQueued + MaxFaults)

C38_NoStarvation ==
    /\ [][Len(claims') > Len(claims)
              => LET j == claims'[Len(claims')]
                 IN  /\ Len(claims') = Len(claims) + 1
                     /\ jobs[j].status = StatusQueued
                     /\ \A k \in DOMAIN jobs :
                           jobs[k].status = StatusQueued
                               => jobs[j].created_at <= jobs[k].created_at]_vars
    /\ \A k \in C38_Jids :
          (k \in DOMAIN jobs /\ jobs[k].status = StatusQueued)
              ~> \/ k \in Range(claims)
                 \/ k \in DOMAIN jobs /\ jobs[k].status = StatusKilled

\* two jobs were queued when a ClaimJob call failed; the older one has been
\* claimed first and the other after it
C38_Witness ==
    /\ claimErrs /= << >>
    /\ Cardinality(claimErrs[1]) >= 2
    /\ Len(claims) = 2
    /\ jobs[claims[1]].created_at < jobs[claims[2]].created_at

====
